---- MODULE Spec2Model ----
(***************************************************************************)
(* sage: provider protocol layer.                                          *)
(*                                                                         *)
(* One CompleteStream call of one of the three adapters (openai,           *)
(* anthropic, ollama): the synchronous part of the call, the background    *)
(* goroutine that scans the response body line by line and sends Chunks    *)
(* on an unbuffered channel, and the consumer of that channel.             *)
(*                                                                         *)
(* The response body is a stream the server produces: every scanner.Scan() *)
(* returns the next line the server sent, or false at end of body or on a  *)
(* read error.  `lines` records the lines Scan has returned so far.        *)
(***************************************************************************)
EXTENDS Integers, Sequences, FiniteSets, TLC

\* Most lines scanner.Scan() returns in one call (one more for anthropic, see
\* LineBound).
MaxLines == 4
\* The longest response body of a call that runs concurrently with another.
MaxCallLines == 2

\* http.StatusOK
StatusOK == 200

Providers == {"openai", "anthropic", "ollama"}

----------------------------------------------------------------------------
(* Chunk{Content, Done, Error}; Error "nil" is the nil error.               *)

ContentChunk(s) == [Content |-> s, Done |-> FALSE, Error |-> "nil"]
DoneChunk == [Content |-> "", Done |-> TRUE, Error |-> "nil"]
ErrorChunk(e) == [Content |-> "", Done |-> FALSE, Error |-> e]

ParseError == "failed to parse stream data"
ReadError == "stream read error"
OllamaError == "ollama error"

----------------------------------------------------------------------------
(* Body lines.  A line is its text, split into the SSE prefix the decoders *)
(* test with strings.HasPrefix and the rest, together with what            *)
(* json.Unmarshal makes of the rest: json is FALSE when Unmarshal returns  *)
(* an error; the other fields are the decoded struct fields (zero values   *)
(* when absent).  delta is <<>> for a nil *anthropicStreamDelta.           *)

TextLine(pfx, txt) ==
    [prefix |-> pfx, text |-> txt, json |-> FALSE, choices |-> <<>>,
     delta |-> <<>>, content |-> "", done |-> FALSE, error |-> ""]

JsonLine(pfx, chs, dl, msg, dn, er) ==
    [prefix |-> pfx, text |-> "{...}", json |-> TRUE, choices |-> chs,
     delta |-> dl, content |-> msg, done |-> dn, error |-> er]

TextDelta(s) == <<[type |-> "text_delta", text |-> s]>>

EmptyLine == TextLine("", "")
DoneLine == TextLine("data: ", "[DONE]")
BadDataLine == TextLine("data: ", "{bad")
CommentLine == TextLine("", ": keep-alive")
EventLine(e) == TextLine("event: ", e)
\* [DONE] without the `data: ` prefix
BareDoneLine == TextLine("", "[DONE]")
\* {"choices":[{"delta":{"content":"a"}}]} without the `data: ` prefix
BareJsonLine == JsonLine("", <<"a">>, <<>>, "", FALSE, "")

\* data: {"choices":[{"delta":{"content":s}}]}
OpenAIData(s) == JsonLine("data: ", <<s>>, <<>>, "", FALSE, "")
\* data: {"type":"content_block_delta","delta":{"type":"text_delta","text":s}}
AnthropicData(s) == JsonLine("data: ", <<>>, TextDelta(s), "", FALSE, "")
\* {"message":{"content":s},"done":d}
\* A content_block_delta payload whose delta is not a text delta.
OtherDelta(s) ==
    JsonLine("data: ", <<>>, <<[type |-> "input_json_delta", text |-> s]>>, "", FALSE, "")
OllamaLine(s, d) == JsonLine("", <<>>, <<>>, s, d, "")
\* {"error":"x","message":{"content":"a"},"done":true}
OllamaErrorLine == JsonLine("", <<>>, <<>>, "a", TRUE, "x")

\* The lines the server of each protocol is taken to send.
Wire(p) ==
    CASE p = "openai" ->
           {EmptyLine, CommentLine, BareDoneLine, BareJsonLine, DoneLine, BadDataLine,
            OpenAIData("a"), OpenAIData("b"), OpenAIData("")}
      [] p = "anthropic" ->
           {EmptyLine, EventLine("content_block_delta"), EventLine("message_stop"),
            EventLine("ping"), BadDataLine,
            AnthropicData("a"), AnthropicData("b"), AnthropicData("")}
      [] p = "ollama" ->
           {EmptyLine, BadDataLine, OllamaLine("a", FALSE), OllamaLine("b", FALSE),
            OllamaLine("", FALSE), OllamaLine("", TRUE), OllamaLine("b", TRUE),
            OllamaErrorLine}
      [] OTHER -> {}

\* anthropic frames every event as an `event: ` line and a `data: ` line, so the
\* same number of events takes more lines.
LineBound(p) == IF p = "anthropic" THEN MaxLines + 1 ELSE MaxLines

\* line == ""
IsEmpty(l) == l.prefix = "" /\ l.text = ""

----------------------------------------------------------------------------
(* The body of each decoder's scan loop for one line: the new current      *)
(* event type, the Chunks it sends, in order, and whether it returns.      *)

Skip(ev) == [event |-> ev, out |-> <<>>, stop |-> FALSE]
Emit(ev, c) == [event |-> ev, out |-> <<c>>, stop |-> FALSE]
Finish(ev, cs) == [event |-> ev, out |-> cs, stop |-> TRUE]

\* Bug: no `return` after the Done Chunk.
OpenAIDecodeNoReturn(ev, l) ==
    IF IsEmpty(l) THEN Skip(ev)
    ELSE IF l.prefix = "data: " /\ l.text = "[DONE]" THEN Emit(ev, DoneChunk)
    ELSE IF l.prefix # "data: " THEN Skip(ev)
    ELSE IF ~l.json THEN Finish(ev, <<ErrorChunk(ParseError)>>)
    ELSE IF Len(l.choices) > 0 /\ l.choices[1] # ""
         THEN Emit(ev, ContentChunk(l.choices[1]))
    ELSE Skip(ev)

\* Bug: the `if content != ""` test is missing.
OpenAIDecodeEmptyContent(ev, l) ==
    IF IsEmpty(l) THEN Skip(ev)
    ELSE IF l.prefix = "data: " /\ l.text = "[DONE]" THEN Finish(ev, <<DoneChunk>>)
    ELSE IF l.prefix # "data: " THEN Skip(ev)
    ELSE IF ~l.json THEN Finish(ev, <<ErrorChunk(ParseError)>>)
    ELSE IF Len(l.choices) > 0 THEN Emit(ev, ContentChunk(l.choices[1]))
    ELSE Skip(ev)

\* Bug: the sentinel is recognised by its payload alone, with or without the
\* `data: ` prefix.
OpenAIDecodeLooseSentinel(ev, l) ==
    IF IsEmpty(l) THEN Skip(ev)
    ELSE IF l.text = "[DONE]" THEN Finish(ev, <<DoneChunk>>)
    ELSE IF l.prefix # "data: " THEN Skip(ev)
    ELSE IF ~l.json THEN Finish(ev, <<ErrorChunk(ParseError)>>)
    ELSE IF Len(l.choices) > 0 /\ l.choices[1] # ""
         THEN Emit(ev, ContentChunk(l.choices[1]))
    ELSE Skip(ev)

OpenAIDecode(ev, l) ==
    IF IsEmpty(l) THEN Skip(ev)
    ELSE IF l.prefix = "data: " /\ l.text = "[DONE]" THEN Finish(ev, <<DoneChunk>>)
    ELSE IF l.prefix # "data: " THEN Skip(ev)
    ELSE IF ~l.json THEN Finish(ev, <<ErrorChunk(ParseError)>>)
    ELSE IF Len(l.choices) > 0 /\ l.choices[1] # ""
         THEN Emit(ev, ContentChunk(l.choices[1]))
    ELSE Skip(ev)

\* Bug: the current event type is cleared once a data line has been handled.
AnthropicDecodeEventReset(ev, l) ==
    IF l.prefix = "event: " THEN Skip(l.text)
    ELSE IF IsEmpty(l) THEN Skip(ev)
    ELSE IF l.prefix # "data: " THEN Skip(ev)
    ELSE IF ev = "message_stop" THEN Finish(ev, <<DoneChunk>>)
    ELSE IF ev # "content_block_delta" THEN Skip(ev)
    ELSE IF ~l.json THEN Finish(ev, <<ErrorChunk(ParseError)>>)
    ELSE IF l.delta # <<>> /\ l.delta[1].type = "text_delta" /\ l.delta[1].text # ""
         THEN Emit("", ContentChunk(l.delta[1].text))
    ELSE Skip("")

\* Bug: the delta's type is not looked at.
AnthropicDecodeAnyDelta(ev, l) ==
    IF l.prefix = "event: " THEN Skip(l.text)
    ELSE IF IsEmpty(l) THEN Skip(ev)
    ELSE IF l.prefix # "data: " THEN Skip(ev)
    ELSE IF ev = "message_stop" THEN Finish(ev, <<DoneChunk>>)
    ELSE IF ev # "content_block_delta" THEN Skip(ev)
    ELSE IF ~l.json THEN Finish(ev, <<ErrorChunk(ParseError)>>)
    ELSE IF l.delta # <<>> /\ l.delta[1].text # ""
         THEN Emit(ev, ContentChunk(l.delta[1].text))
    ELSE Skip(ev)

AnthropicDecode(ev, l) ==
    IF l.prefix = "event: " THEN Skip(l.text)
    ELSE IF IsEmpty(l) THEN Skip(ev)
    ELSE IF l.prefix # "data: " THEN Skip(ev)
    ELSE IF ev = "message_stop" THEN Finish(ev, <<DoneChunk>>)
    ELSE IF ev # "content_block_delta" THEN Skip(ev)
    ELSE IF ~l.json THEN Finish(ev, <<ErrorChunk(ParseError)>>)
    ELSE IF l.delta # <<>> /\ l.delta[1].type = "text_delta" /\ l.delta[1].text # ""
         THEN Emit(ev, ContentChunk(l.delta[1].text))
    ELSE Skip(ev)

\* Bug: a line that does not parse is skipped (`continue`) instead of ending the
\* stream.
OllamaDecodeSkipBad(ev, l) ==
    IF IsEmpty(l) THEN Skip(ev)
    ELSE IF ~(l.prefix = "" /\ l.json) THEN Skip(ev)
    ELSE IF l.error # "" THEN Finish(ev, <<ErrorChunk(OllamaError)>>)
    ELSE LET c == IF l.content # "" THEN <<ContentChunk(l.content)>> ELSE <<>>
         IN  IF l.done THEN Finish(ev, c \o <<DoneChunk>>)
             ELSE [event |-> ev, out |-> c, stop |-> FALSE]

\* Bug: done is tested before the content is sent.
OllamaDecodeDoneFirst(ev, l) ==
    IF IsEmpty(l) THEN Skip(ev)
    ELSE IF ~(l.prefix = "" /\ l.json) THEN Finish(ev, <<ErrorChunk(ParseError)>>)
    ELSE IF l.error # "" THEN Finish(ev, <<ErrorChunk(OllamaError)>>)
    ELSE IF l.done THEN Finish(ev, <<DoneChunk>>)
    ELSE IF l.content # "" THEN Emit(ev, ContentChunk(l.content))
    ELSE Skip(ev)

\* Bug: the error field is tested after the content has been sent.
OllamaDecodeErrorLast(ev, l) ==
    IF IsEmpty(l) THEN Skip(ev)
    ELSE IF ~(l.prefix = "" /\ l.json) THEN Finish(ev, <<ErrorChunk(ParseError)>>)
    ELSE LET c == IF l.content # "" THEN <<ContentChunk(l.content)>> ELSE <<>>
         IN  IF l.error # "" THEN Finish(ev, c \o <<ErrorChunk(OllamaError)>>)
             ELSE IF l.done THEN Finish(ev, c \o <<DoneChunk>>)
             ELSE [event |-> ev, out |-> c, stop |-> FALSE]

\* json.Unmarshal is given the whole line: a line with an SSE prefix is not JSON.
OllamaDecode(ev, l) ==
    IF IsEmpty(l) THEN Skip(ev)
    ELSE IF ~(l.prefix = "" /\ l.json) THEN Finish(ev, <<ErrorChunk(ParseError)>>)
    ELSE IF l.error # "" THEN Finish(ev, <<ErrorChunk(OllamaError)>>)
    ELSE LET c == IF l.content # "" THEN <<ContentChunk(l.content)>> ELSE <<>>
         IN  IF l.done THEN Finish(ev, c \o <<DoneChunk>>)
             ELSE [event |-> ev, out |-> c, stop |-> FALSE]

Decode(p, ev, l) ==
    CASE p = "openai" -> OpenAIDecode(ev, l)
      [] p = "anthropic" -> AnthropicDecode(ev, l)
      [] p = "ollama" -> OllamaDecode(ev, l)

----------------------------------------------------------------------------
(* Requests and buildRequest. A model identifier is the sequence of its    *)
(* characters, so that strings.HasPrefix and strings.Contains are computed. *)

HasPrefix(s, prefix) ==
    Len(s) >= Len(prefix) /\ SubSeq(s, 1, Len(prefix)) = prefix

Contains(s, substr) ==
    \E i \in 1..(Len(s) - Len(substr) + 1) : SubSeq(s, i, i + Len(substr) - 1) = substr

Models ==
    {<<"o", "1">>,
     <<"o", "1", "-", "m", "i", "n", "i">>,
     <<"o", "3">>,
     <<"o", "3", "-", "m", "i", "n", "i">>,
     <<"o", "4", "-", "m", "i", "n", "i">>,
     <<"x", "o", "1">>,
     <<"g", "p", "t", "-", "4", "o">>,
     <<"g", "p", "t", "-", "4", "o", "-", "m", "i", "n", "i">>,
     <<"c", "h", "a", "t", "g", "p", "t", "-", "4", "o", "-", "l", "a", "t", "e", "s", "t">>,
     <<"f", "t", ":", "g", "p", "t", "-", "4", "o", ":", "o", "r", "g">>,
     <<"g", "p", "t", "-", "5">>,
     <<"g", "p", "t", "-", "5", "-", "m", "i", "n", "i">>,
     <<"g", "p", "t", "-", "4">>,
     <<"g", "p", "t", "-", "4", "-", "t", "u", "r", "b", "o">>,
     <<"g", "p", "t", "-", "3", ".", "5", "-", "t", "u", "r", "b", "o">>,
     <<"c", "l", "a", "u", "d", "e", "-", "3">>,
     <<"l", "l", "a", "m", "a", "3">>,
     <<>>}

TokenLimits == {-1, 0, 1, 1024}

\* sage.Request, as far as the adapters read it.
Requests ==
    [Model : Models, System : {"", "sys"}, Prompt : {"hi"}, MaxTokens : TokenLimits,
     APIKey : {"k"}, BaseURL : {<<>>}]

DefaultRequest ==
    [Model |-> <<"m">>, System |-> "", Prompt |-> "hi", MaxTokens |-> 0,
     APIKey |-> "k", BaseURL |-> <<>>]

\* A URL is the sequence of its parts, each `/` at the end of a base URL a part of
\* its own, so that strings.TrimSuffix is computed.
BaseURLs ==
    {<<>>, <<"/">>, <<"http://h">>, <<"http://h", "/">>, <<"http://h", "/", "/">>,
     <<"http://h", "/", "p">>, <<"http://h", "/", "p", "/">>}

\* Requests that differ in the API key and the base-URL override.
EndpointRequests ==
    [Model : {<<"m">>}, System : {""}, Prompt : {"hi"}, MaxTokens : {0},
     APIKey : {"", "k"}, BaseURL : BaseURLs]

HasSuffix(s, suffix) ==
    Len(s) >= Len(suffix) /\ SubSeq(s, Len(s) - Len(suffix) + 1, Len(s)) = suffix

TrimSuffix(s, suffix) ==
    IF HasSuffix(s, suffix) THEN SubSeq(s, 1, Len(s) - Len(suffix)) ELSE s

openaiDefaultURL == <<"https://api.openai.com", "/v1/chat/completions">>
anthropicDefaultURL == <<"https://api.anthropic.com", "/v1/messages">>
ollamaDefaultURL == <<"http://localhost:11434">>

OpenAIEndpoint(r) ==
    IF r.BaseURL # <<>> THEN TrimSuffix(r.BaseURL, <<"/">>) \o <<"/v1/chat/completions">>
    ELSE openaiDefaultURL

AnthropicEndpoint(r) ==
    IF r.BaseURL # <<>> THEN TrimSuffix(r.BaseURL, <<"/">>) \o <<"/v1/messages">>
    ELSE anthropicDefaultURL

OllamaEndpoint(r) ==
    LET baseURL == IF r.BaseURL = <<>> THEN ollamaDefaultURL ELSE r.BaseURL
    IN  TrimSuffix(baseURL, <<"/">>) \o <<"/api/chat">>

Endpoint(p, r) ==
    CASE p = "openai" -> OpenAIEndpoint(r)
      [] p = "anthropic" -> AnthropicEndpoint(r)
      [] p = "ollama" -> OllamaEndpoint(r)

\* Bug: the override is used as it is.
OpenAIModelsEndpointNoTrim(baseURL) ==
    IF baseURL # <<>> THEN baseURL \o <<"/v1/models">>
    ELSE <<"https://api.openai.com", "/v1/models">>

\* The endpoint of openai.ListModels.
OpenAIModelsEndpoint(baseURL) ==
    IF baseURL # <<>> THEN TrimSuffix(baseURL, <<"/">>) \o <<"/v1/models">>
    ELSE <<"https://api.openai.com", "/v1/models">>

\* http.Header after the Set calls: a function from header names to values; the
\* value `Bearer ` + key is the pair of its two parts.
Bearer(apiKey) == <<"Bearer ", apiKey>>

OpenAISetHeaders(apiKey) ==
    [h \in {"Content-Type", "Authorization"} |->
       IF h = "Content-Type" THEN <<"application/json">> ELSE Bearer(apiKey)]

AnthropicSetHeaders(apiKey) ==
    [h \in {"Content-Type", "x-api-key", "anthropic-version"} |->
       CASE h = "Content-Type" -> <<"application/json">>
         [] h = "x-api-key" -> <<apiKey>>
         [] h = "anthropic-version" -> <<"2023-06-01">>]

\* Bug: the Authorization header is set whether or not there is a key.
OllamaSetHeadersAlways(apiKey) ==
    [h \in {"Content-Type", "Authorization"} |->
       IF h = "Content-Type" THEN <<"application/json">> ELSE Bearer(apiKey)]

OllamaSetHeaders(apiKey) ==
    [h \in {"Content-Type"} \cup (IF apiKey # "" THEN {"Authorization"} ELSE {}) |->
       IF h = "Content-Type" THEN <<"application/json">> ELSE Bearer(apiKey)]

SetHeaders(p, apiKey) ==
    CASE p = "openai" -> OpenAISetHeaders(apiKey)
      [] p = "anthropic" -> AnthropicSetHeaders(apiKey)
      [] p = "ollama" -> OllamaSetHeaders(apiKey)

\* *http.Request as handed to http.DefaultClient.Do.
HTTPRequest(method, url, headers) == [method |-> method, url |-> url, headers |-> headers]
NoHTTPRequest == HTTPRequest("", <<>>, [h \in {} |-> <<>>])

Message(role, content) == [Role |-> role, Content |-> content]

usesMaxCompletionTokensNoGpt5(model) ==
    \/ HasPrefix(model, <<"o", "1">>)
    \/ HasPrefix(model, <<"o", "3">>)
    \/ Contains(model, <<"g", "p", "t", "-", "4", "o">>)

usesMaxCompletionTokens(model) ==
    \/ HasPrefix(model, <<"o", "1">>)
    \/ HasPrefix(model, <<"o", "3">>)
    \/ Contains(model, <<"g", "p", "t", "-", "4", "o">>)
    \/ Contains(model, <<"g", "p", "t", "-", "5">>)

OpenAIBuildRequest(r, stream) ==
    LET messages == (IF r.System # "" THEN <<Message("system", r.System)>> ELSE <<>>)
                    \o <<Message("user", r.Prompt)>>
        newer == usesMaxCompletionTokens(r.Model)
    IN  [Model |-> r.Model,
         Messages |-> messages,
         Stream |-> stream,
         MaxTokens |-> IF r.MaxTokens > 0 /\ ~newer THEN r.MaxTokens ELSE 0,
         MaxCompletionTokens |-> IF r.MaxTokens > 0 /\ newer THEN r.MaxTokens ELSE 0]

DefaultMaxTokens == 1024

\* Bug: the request's limit is passed on as it is.
AnthropicBuildRequestNoDefault(r, stream) ==
    [Model |-> r.Model,
     MaxTokens |-> r.MaxTokens,
     System |-> r.System,
     Messages |-> <<Message("user", r.Prompt)>>,
     Stream |-> stream]

AnthropicBuildRequest(r, stream) ==
    [Model |-> r.Model,
     MaxTokens |-> IF r.MaxTokens = 0 THEN DefaultMaxTokens ELSE r.MaxTokens,
     System |-> r.System,
     Messages |-> <<Message("user", r.Prompt)>>,
     Stream |-> stream]

\* Bug: the system message is appended after the user message.
OllamaBuildRequestUserFirst(r, stream) ==
    [Model |-> r.Model,
     Messages |-> <<Message("user", r.Prompt)>>
                  \o (IF r.System # "" THEN <<Message("system", r.System)>> ELSE <<>>),
     Stream |-> stream]

OllamaBuildRequest(r, stream) ==
    [Model |-> r.Model,
     Messages |-> (IF r.System # "" THEN <<Message("system", r.System)>> ELSE <<>>)
                  \o <<Message("user", r.Prompt)>>,
     Stream |-> stream]

BuildRequest(p, r, stream) ==
    CASE p = "openai" -> OpenAIBuildRequest(r, stream)
      [] p = "anthropic" -> AnthropicBuildRequest(r, stream)
      [] p = "ollama" -> OllamaBuildRequest(r, stream)

----------------------------------------------------------------------------
(* The body of a 200 response to Complete, and what each adapter makes of   *)
(* it. A field the body does not carry decodes to its zero value.           *)

Body(js, chs, blocks, msg, er) ==
    [json |-> js, choices |-> chs, content |-> blocks, message |-> msg, error |-> er,
     usage |-> [in |-> 1, out |-> 2]]

Block(t, s) == [type |-> t, text |-> s]

NoBody == Body(FALSE, <<>>, <<>>, "", "")

Bodies ==
    {NoBody,
     Body(TRUE, <<>>, <<>>, "", ""),
     Body(TRUE, <<"a">>, <<Block("text", "a")>>, "a", ""),
     Body(TRUE, <<"a", "b">>, <<Block("tool_use", ""), Block("text", "b")>>, "", ""),
     Body(TRUE, <<"">>, <<Block("tool_use", "")>>, "a", "x")}

\* (*Response, error): resp is <<>> for a nil pointer.
Fail(e) == [resp |-> <<>>, err |-> e]
Ok(content, r, b) ==
    [resp |-> <<[Content |-> content, Model |-> r.Model,
                 Usage |-> [PromptTokens |-> b.usage.in,
                            CompletionTokens |-> b.usage.out]]>>,
     err |-> "nil"]

OpenAIResult(r, b) ==
    IF ~b.json THEN Fail("failed to decode response")
    ELSE IF Len(b.choices) = 0 THEN Fail("no choices in response")
    ELSE Ok(b.choices[1], r, b)

\* The text of the first block of type "text", "" when there is none.
FirstText(blocks) ==
    LET T == {i \in DOMAIN blocks : blocks[i].type = "text"}
    IN  IF T = {} THEN ""
        ELSE blocks[CHOOSE i \in T : \A j \in T : i <= j].text

AnthropicResult(r, b) ==
    IF ~b.json THEN Fail("failed to decode response")
    ELSE IF Len(b.content) = 0 THEN Fail("no content in response")
    ELSE Ok(FirstText(b.content), r, b)

OllamaResult(r, b) ==
    IF ~b.json THEN Fail("failed to decode response")
    ELSE IF b.error # "" THEN Fail("ollama error")
    ELSE Ok(b.message, r, b)

\* The body of a 200 response to openai.ListModels: the ids under "data".
ModelsBodies ==
    {[json |-> FALSE, data |-> <<>>],
     [json |-> TRUE, data |-> <<>>],
     [json |-> TRUE,
      data |-> << <<"g", "p", "t", "-", "4", "o">>,
                  <<"w", "h", "i", "s", "p", "e", "r">>,
                  <<"o", "3">> >>]}

IsChatModel(id) ==
    \/ Contains(id, <<"g", "p", "t">>)
    \/ Contains(id, <<"o", "1">>)
    \/ Contains(id, <<"o", "3">>)

\* ([]ModelInfo, error) of openai.ListModels for a 200 response.
OpenAIModelsResult(b) ==
    IF ~b.json THEN Fail("failed to decode response")
    ELSE [resp |-> <<[i \in DOMAIN SelectSeq(b.data, IsChatModel) |->
                        [ID |-> SelectSeq(b.data, IsChatModel)[i],
                         Name |-> SelectSeq(b.data, IsChatModel)[i]]]>>,
          err |-> "nil"]

Result(p, r, b) ==
    CASE p = "openai" -> OpenAIResult(r, b)
      [] p = "anthropic" -> AnthropicResult(r, b)
      [] p = "ollama" -> OllamaResult(r, b)

----------------------------------------------------------------------------
(* handleError: the error returned for a response whose status is not 200. *)
(* decodable: the body decodes to the provider's error object.             *)

HandleError(p, st, decodable) ==
    IF p = "ollama" THEN "ollama error"
    ELSE IF decodable /\ st = 401 THEN "invalid API key"
    ELSE IF decodable /\ st = 429 THEN "rate limited"
    ELSE "API error"

\* What http.NewRequest and http.DefaultClient.Do can come back with.
Statuses == {200, 201, 401, 429, 500}
Outcomes ==
    {[kind |-> k, status |-> 0, decodable |-> FALSE] : k \in {"newRequestError", "doError"}}
    \cup {[kind |-> "response", status |-> st, decodable |-> d] :
            st \in Statuses \ {StatusOK}, d \in BOOLEAN}
    \cup {[kind |-> "response", status |-> StatusOK, decodable |-> FALSE]}

\* The arguments of handleError's format string: the status code, 0 when the
\* message does not carry it, and the provider's message or the raw body.
HandleErrorArgs(p, st, decodable) ==
    [status |-> IF p # "ollama" /\ decodable /\ st \in {401, 429} THEN 0 ELSE st,
     text |-> IF decodable THEN "message" ELSE "body"]

\* What the HTTP call of Complete can come back with: an outcome, together with
\* the body of the response.
Replies ==
    UNION {{[kind |-> o.kind, status |-> o.status, decodable |-> o.decodable, body |-> b] :
              b \in IF o.kind = "response" THEN Bodies ELSE {NoBody}} :
           o \in Outcomes}

----------------------------------------------------------------------------
VARIABLES
    provider,      \* the adapter Complete or CompleteStream is called on
    req,           \* the providers.Request of the call
    httpReq,       \* the *http.Request the call made: [method, url, headers]
    wire,          \* the wire request buildRequest made of it
    httpCalls,     \* number of http.DefaultClient.Do calls
    result,        \* what Complete returned: [resp, err]
    outcome,       \* what the HTTP call came back with
    pc,            \* position of the call / of its background goroutine
    ret,           \* what CompleteStream returned: [ch, err]
    started,       \* number of background goroutines started
    lines,         \* the lines scanner.Scan() has returned
    scanEnd,       \* "" while scanning; "eof" / "err" once Scan returned false
    currentEvent,  \* anthropic: var currentEvent string
    sendq,         \* Chunks of the current line still to be sent on ch
    next,          \* where the goroutine goes after the sends: "scan" or "exit"
    sent,          \* Chunks the consumer has received from ch, in order
    chClosed,      \* close(ch) has run
    bodyCloses,    \* number of resp.Body.Close() calls
    consumer,      \* "receiving", or "stopped" once the caller abandons ch
    calls,         \* concurrent CompleteStream calls on one adapter: the locals of each
    forward,       \* Client.CompleteStream's goroutine: [count, closed, out]
    config,        \* Client.config: [Providers, Profiles, DefaultProfile]
    secrets,       \* Client.secrets: API key by provider:account
    opErr,         \* the error the last profile or account operation returned
    registry,      \* providers.registry: constructor by name
    got,           \* what the last query returned: [op, val]
    keyFile,       \* master.key: File(key), or NoFile
    secretsFile    \* secrets.enc: File(encrypt(key, secrets)), or NoFile

\* The state of the client layer and of concurrent calls.
\* The files of the secret store, and the last query's result.
storeVars == <<got, keyFile, secretsFile>>

clientVars == <<calls, forward, config, secrets, opErr, registry, storeVars>>

\* The state of the one adapter call, but for the adapter it is made on.
callVars == <<req, httpReq, wire, httpCalls, result, outcome, pc, ret, started, lines,
              scanEnd, currentEvent, sendq, next, sent, chClosed, bodyCloses, consumer>>

vars == <<provider, callVars, clientVars>>

NoOutcome == [kind |-> "none", status |-> 0, decodable |-> FALSE]
NoWire == [Model |-> <<>>, Messages |-> <<>>, Stream |-> FALSE]

\* The calls that may run at the same time on one adapter.
Calls == {1, 2}

\* The locals of a CompleteStream call that has not started.
NoCall ==
    [pc |-> "idle", lines |-> <<>>, scanEnd |-> "", currentEvent |-> "", sendq |-> <<>>,
     next |-> "scan", sent |-> <<>>, chClosed |-> FALSE, bodyCloses |-> 0, err |-> "nil"]

\* A map without entries.
EmptyMap == [k \in {} |-> ""]

\* The constructors the init functions register.
NewProvider(name) == [name |-> name]
\* A file is the sequence holding its content; no file is the empty sequence.
NoFile == <<>>
File(content) == <<content>>
NoResult == [op |-> "", val |-> ""]

Init ==
    /\ provider = "none"
    /\ req = DefaultRequest
    /\ httpReq = NoHTTPRequest
    /\ wire = NoWire
    /\ httpCalls = 0
    /\ result = Fail("nil")
    /\ outcome = NoOutcome
    /\ pc = "idle"
    /\ ret = [ch |-> FALSE, err |-> "nil"]
    /\ started = 0
    /\ lines = <<>>
    /\ scanEnd = ""
    /\ currentEvent = ""
    /\ sendq = <<>>
    /\ next = "scan"
    /\ sent = <<>>
    /\ chClosed = FALSE
    /\ bodyCloses = 0
    /\ consumer = "receiving"
    /\ calls = [c \in Calls |-> NoCall]
    /\ forward = [count |-> 0, closed |-> FALSE, out |-> <<>>]
    /\ config = [Providers |-> EmptyMap, Profiles |-> EmptyMap, DefaultProfile |-> ""]
    /\ secrets = EmptyMap
    /\ opErr = "nil"
    /\ registry = [n \in Providers |-> NewProvider(n)]
    /\ got = NoResult
    /\ keyFile = NoFile
    /\ secretsFile = NoFile

\* Bug: the error return for a non-200 status does not close the body.
CompleteStreamLeakBody(p, r, o) ==
    /\ pc = "idle"
    /\ provider' = p
    /\ req' = r
    /\ wire' = BuildRequest(p, r, TRUE)
    /\ httpReq' = IF o.kind = "newRequestError" THEN NoHTTPRequest
                  ELSE HTTPRequest("POST", Endpoint(p, r), SetHeaders(p, r.APIKey))
    /\ httpCalls' = IF o.kind = "newRequestError" THEN httpCalls ELSE httpCalls + 1
    /\ outcome' = o
    /\ IF o.kind = "newRequestError"
       THEN /\ ret' = [ch |-> FALSE, err |-> "failed to create request"]
            /\ pc' = "returned"
            /\ UNCHANGED <<started, bodyCloses>>
       ELSE IF o.kind = "doError"
       THEN /\ ret' = [ch |-> FALSE, err |-> "request failed"]
            /\ pc' = "returned"
            /\ UNCHANGED <<started, bodyCloses>>
       ELSE IF o.status # StatusOK
       THEN /\ ret' = [ch |-> FALSE, err |-> HandleError(p, o.status, o.decodable)]
            /\ pc' = "returned"
            /\ UNCHANGED <<started, bodyCloses>>
       ELSE /\ ret' = [ch |-> TRUE, err |-> "nil"]
            /\ started' = started + 1
            /\ pc' = "scan"
            /\ UNCHANGED bodyCloses
    /\ UNCHANGED <<clientVars, result, lines, scanEnd, currentEvent, sendq, next, sent, chClosed,
                   consumer>>

\* CompleteStream up to `return`: build and issue the request, check the status,
\* make the channel and start the goroutine.
CompleteStream(p, r, o) ==
    /\ pc = "idle"
    /\ provider' = p
    /\ req' = r
    /\ wire' = BuildRequest(p, r, TRUE)
    /\ httpReq' = IF o.kind = "newRequestError" THEN NoHTTPRequest
                  ELSE HTTPRequest("POST", Endpoint(p, r), SetHeaders(p, r.APIKey))
    /\ httpCalls' = IF o.kind = "newRequestError" THEN httpCalls ELSE httpCalls + 1
    /\ outcome' = o
    /\ IF o.kind = "newRequestError"
       THEN /\ ret' = [ch |-> FALSE, err |-> "failed to create request"]
            /\ pc' = "returned"
            /\ UNCHANGED <<started, bodyCloses>>
       ELSE IF o.kind = "doError"
       THEN /\ ret' = [ch |-> FALSE, err |-> "request failed"]
            /\ pc' = "returned"
            /\ UNCHANGED <<started, bodyCloses>>
       ELSE IF o.status # StatusOK
       THEN /\ ret' = [ch |-> FALSE, err |-> HandleError(p, o.status, o.decodable)]
            /\ bodyCloses' = bodyCloses + 1
            /\ pc' = "returned"
            /\ UNCHANGED started
       ELSE /\ ret' = [ch |-> TRUE, err |-> "nil"]
            /\ started' = started + 1
            /\ pc' = "scan"
            /\ UNCHANGED bodyCloses
    /\ UNCHANGED <<clientVars, result, lines, scanEnd, currentEvent, sendq, next, sent, chClosed,
                   consumer>>

\* Bug: a request that failed in transport is issued a second time.
CompleteRetry(p, r, o) ==
    /\ pc = "idle"
    /\ provider' = p
    /\ req' = r
    /\ wire' = BuildRequest(p, r, FALSE)
    /\ httpReq' = IF o.kind = "newRequestError" THEN NoHTTPRequest
                  ELSE HTTPRequest("POST", Endpoint(p, r), SetHeaders(p, r.APIKey))
    /\ httpCalls' = IF o.kind = "newRequestError" THEN httpCalls
                    ELSE IF o.kind = "doError" THEN httpCalls + 2 ELSE httpCalls + 1
    /\ outcome' = o
    /\ IF o.kind = "newRequestError"
       THEN /\ result' = Fail("failed to create request")
            /\ UNCHANGED bodyCloses
       ELSE IF o.kind = "doError"
       THEN /\ result' = Fail("request failed")
            /\ UNCHANGED bodyCloses
       ELSE IF o.status # StatusOK
       THEN /\ result' = Fail(HandleError(p, o.status, o.decodable))
            /\ bodyCloses' = bodyCloses + 1
       ELSE /\ result' = Result(p, r, o.body)
            /\ bodyCloses' = bodyCloses + 1
    /\ pc' = "returned"
    /\ UNCHANGED <<clientVars, ret, started, lines, scanEnd, currentEvent, sendq, next, sent,
                   chClosed, consumer>>

\* Complete: build and issue the request, check the status, decode the body.
Complete(p, r, o) ==
    /\ pc = "idle"
    /\ provider' = p
    /\ req' = r
    /\ wire' = BuildRequest(p, r, FALSE)
    /\ httpReq' = IF o.kind = "newRequestError" THEN NoHTTPRequest
                  ELSE HTTPRequest("POST", Endpoint(p, r), SetHeaders(p, r.APIKey))
    /\ httpCalls' = IF o.kind = "newRequestError" THEN httpCalls ELSE httpCalls + 1
    /\ outcome' = o
    /\ IF o.kind = "newRequestError"
       THEN /\ result' = Fail("failed to create request")
            /\ UNCHANGED bodyCloses
       ELSE IF o.kind = "doError"
       THEN /\ result' = Fail("request failed")
            /\ UNCHANGED bodyCloses
       ELSE IF o.status # StatusOK
       THEN /\ result' = Fail(HandleError(p, o.status, o.decodable))
            /\ bodyCloses' = bodyCloses + 1
       ELSE /\ result' = Result(p, r, o.body)
            /\ bodyCloses' = bodyCloses + 1
    /\ pc' = "returned"
    /\ UNCHANGED <<clientVars, ret, started, lines, scanEnd, currentEvent, sendq, next, sent,
                   chClosed, consumer>>

\* openai.ListModels: issue the GET, check the status, decode and filter the ids.
ListModels(apiKey, baseURL, o) ==
    /\ pc = "idle"
    /\ provider' = "openai"
    /\ req' = [DefaultRequest EXCEPT !.APIKey = apiKey, !.BaseURL = baseURL]
    /\ httpReq' = IF o.kind = "newRequestError" THEN NoHTTPRequest
                  ELSE HTTPRequest("GET", OpenAIModelsEndpoint(baseURL),
                                   [h \in {"Authorization"} |-> Bearer(apiKey)])
    /\ httpCalls' = IF o.kind = "newRequestError" THEN httpCalls ELSE httpCalls + 1
    /\ outcome' = o
    /\ IF o.kind = "newRequestError"
       THEN /\ result' = Fail("failed to create request")
            /\ UNCHANGED bodyCloses
       ELSE IF o.kind = "doError"
       THEN /\ result' = Fail("request failed")
            /\ UNCHANGED bodyCloses
       ELSE IF o.status # StatusOK
       THEN /\ result' = Fail("API error")
            /\ bodyCloses' = bodyCloses + 1
       ELSE /\ result' = OpenAIModelsResult(o.body)
            /\ bodyCloses' = bodyCloses + 1
    /\ pc' = "returned"
    /\ UNCHANGED <<clientVars, wire, ret, started, lines, scanEnd, currentEvent, sendq, next, sent,
                   chClosed, consumer>>

\* Bug: the decoder reads on while a Chunk waits to be received, and queues what
\* it decodes.
ScanLineAhead(l) ==
    /\ pc \in {"scan", "send"}
    /\ next = "scan"
    /\ Len(lines) < LineBound(provider)
    /\ lines' = Append(lines, l)
    /\ LET d == Decode(provider, currentEvent, l)
       IN  /\ currentEvent' = d.event
           /\ sendq' = sendq \o d.out
           /\ next' = IF d.stop THEN "exit" ELSE "scan"
           /\ pc' = IF sendq \o d.out # <<>> THEN "send"
                    ELSE IF d.stop THEN "closeBody" ELSE "scan"
    /\ UNCHANGED <<clientVars, provider, req, httpReq, wire, httpCalls, result, outcome, ret, started, scanEnd, sent, chClosed,
                   bodyCloses, consumer>>

\* scanner.Scan() returns true with line l; the loop body runs up to its first send.
ScanLine(l) ==
    /\ pc = "scan"
    /\ Len(lines) < LineBound(provider)
    /\ lines' = Append(lines, l)
    /\ LET d == Decode(provider, currentEvent, l)
       IN  /\ currentEvent' = d.event
           /\ sendq' = d.out
           /\ next' = IF d.stop THEN "exit" ELSE "scan"
           /\ pc' = IF d.out # <<>> THEN "send"
                    ELSE IF d.stop THEN "closeBody" ELSE "scan"
    /\ UNCHANGED <<clientVars, provider, req, httpReq, wire, httpCalls, result, outcome, ret, started, scanEnd, sent, chClosed,
                   bodyCloses, consumer>>

\* scanner.Scan() returns false and scanner.Err() is nil: end of body.
ScanEOF ==
    /\ pc = "scan"
    /\ scanEnd' = "eof"
    /\ next' = "exit"
    /\ pc' = "closeBody"
    /\ UNCHANGED <<clientVars, provider, req, httpReq, wire, httpCalls, result, outcome, ret, started, lines, currentEvent, sendq,
                   sent, chClosed, bodyCloses, consumer>>

\* Bug: scanner.Err() is not looked at; a read error ends the stream like end of
\* body.
ScanErrorSwallowed ==
    /\ pc = "scan"
    /\ scanEnd' = "err"
    /\ next' = "exit"
    /\ pc' = "closeBody"
    /\ UNCHANGED <<clientVars, provider, req, httpReq, wire, httpCalls, result, outcome, ret, started, lines, currentEvent, sendq,
                   sent, chClosed, bodyCloses, consumer>>

\* scanner.Scan() returns false and scanner.Err() is not nil.
ScanError ==
    /\ pc = "scan"
    /\ scanEnd' = "err"
    /\ sendq' = <<ErrorChunk(ReadError)>>
    /\ next' = "exit"
    /\ pc' = "send"
    /\ UNCHANGED <<clientVars, provider, req, httpReq, wire, httpCalls, result, outcome, ret, started, lines, currentEvent,
                   sent, chClosed, bodyCloses, consumer>>

\* ch <- chunk on the unbuffered channel: completes only with a receiver.
Send ==
    /\ pc = "send"
    /\ consumer = "receiving"
    /\ sent' = Append(sent, Head(sendq))
    /\ sendq' = Tail(sendq)
    /\ pc' = IF Tail(sendq) # <<>> THEN "send"
             ELSE IF next = "exit" THEN "closeBody" ELSE "scan"
    /\ UNCHANGED <<clientVars, provider, req, httpReq, wire, httpCalls, result, outcome, ret, started, lines, scanEnd, currentEvent,
                   next, chClosed, bodyCloses, consumer>>

\* Bug: the goroutine does not defer resp.Body.Close().
CloseBodyMissing ==
    /\ pc = "closeBody"
    /\ pc' = "closeCh"
    /\ UNCHANGED <<clientVars, provider, req, httpReq, wire, httpCalls, result, outcome, ret, started, lines, scanEnd, currentEvent,
                   sendq, next, sent, chClosed, bodyCloses, consumer>>

\* defer resp.Body.Close(): registered last, runs first.
CloseBody ==
    /\ pc = "closeBody"
    /\ bodyCloses' = bodyCloses + 1
    /\ pc' = "closeCh"
    /\ UNCHANGED <<clientVars, provider, req, httpReq, wire, httpCalls, result, outcome, ret, started, lines, scanEnd, currentEvent,
                   sendq, next, sent, chClosed, consumer>>

\* defer close(ch)
CloseChan ==
    /\ pc = "closeCh"
    /\ chClosed' = TRUE
    /\ pc' = "done"
    /\ UNCHANGED <<clientVars, provider, req, httpReq, wire, httpCalls, result, outcome, ret, started, lines, scanEnd, currentEvent,
                   sendq, next, sent, bodyCloses, consumer>>

\* The caller breaks out of its receive loop and never receives again.
ConsumerStop ==
    /\ ret.ch
    /\ consumer = "receiving"
    /\ ~chClosed
    /\ consumer' = "stopped"
    /\ UNCHANGED <<clientVars, provider, req, httpReq, wire, httpCalls, result, outcome, pc, ret, started, lines, scanEnd,
                   currentEvent, sendq, next, sent, chClosed, bodyCloses>>

\* The steps of the background goroutine.
Goroutine ==
    \/ \E l \in Wire(provider) : ScanLine(l)
    \/ ScanEOF
    \/ ScanError
    \/ Send
    \/ CloseBody
    \/ CloseChan

Next ==
    \/ \E p \in Providers, o \in Replies : Complete(p, DefaultRequest, o)
    \/ \E p \in Providers, o \in Outcomes : CompleteStream(p, DefaultRequest, o)
    \/ Goroutine
    \/ ConsumerStop

Spec == Init /\ [][Next]_vars

\* An Anthropic stream with more event types and payloads: one successful
\* CompleteStream call whose consumer keeps receiving.
EventWire ==
    {EmptyLine, CommentLine, BadDataLine,
     EventLine("content_block_delta"), EventLine("content_block_start"),
     EventLine("message_stop"),
     AnthropicData("a"), OtherDelta("b")}

EventNext ==
    \/ CompleteStream("anthropic", DefaultRequest,
                      [kind |-> "response", status |-> StatusOK, decodable |-> FALSE])
    \/ \E l \in EventWire : ScanLine(l)
    \/ ScanEOF
    \/ ScanError
    \/ Send
    \/ CloseBody
    \/ CloseChan

EventSpec == Init /\ [][EventNext]_vars

----------------------------------------------------------------------------
(* The client: profiles, provider accounts and secrets, and Client.Complete. *)

\* Go maps as functions: m[k] = v, delete(m, k), and m[k] with its zero value.
Put(m, k, v) == [x \in DOMAIN m \cup {k} |-> IF x = k THEN v ELSE m[x]]
Delete(m, k) == [x \in DOMAIN m \ {k} |-> m[x]]
Lookup(m, k, zero) == IF k \in DOMAIN m THEN m[k] ELSE zero

ProfileNames == {"", "a", "b"}
Profiles ==
    [Name : {""}, Provider : {"openai", "ollama", "bogus"}, Account : {"x"},
     Model : {<<"m">>}]
AccountProviders == {"openai", "bogus"}
AccountNames == {"x", "y"}
APIKeys == {"k1", "k2"}

\* ProviderConfig{} and Profile{}.
NoProviderConfig == [Accounts |-> <<>>, BaseURL |-> <<>>]
NoProfile == [Name |-> "", Provider |-> "", Account |-> "", Model |-> <<>>]

\* provider + ":" + account, each a string given by its parts.
secretKey(prov, account) == prov \o <<":">> \o account

\* Config.Save and SaveSecrets: the error of writing the file.
Save(ok) == IF ok THEN "nil" ELSE "cannot write config"
SaveSecrets(ok) == IF ok THEN "nil" ELSE "cannot write secrets"

\* providers.Exists
Exists(name) == name \in DOMAIN registry

\* Config.GetProfile: (*Profile, error)
GetProfile(cfg, profileName) ==
    LET name == IF profileName = "" THEN cfg.DefaultProfile ELSE profileName
    IN  IF name = ""
        THEN [profile |-> NoProfile, err |-> "no profile specified and no default set"]
        ELSE IF name \notin DOMAIN cfg.Profiles
        THEN [profile |-> NoProfile, err |-> "profile not found"]
        ELSE [profile |-> [cfg.Profiles[name] EXCEPT !.Name = name], err |-> "nil"]

\* Client.buildProviderRequest, for a profile GetProfile has found.
buildProviderRequest(prof, r) ==
    [Model |-> prof.Model,
     System |-> r.System,
     Prompt |-> r.Prompt,
     MaxTokens |-> r.MaxTokens,
     APIKey |-> Lookup(secrets, secretKey(<<prof.Provider>>, <<prof.Account>>), ""),
     BaseURL |-> Lookup(config.Providers, prof.Provider, NoProviderConfig).BaseURL]

\* Bug: the profile is stored before the provider is validated.
AddProfileStoreFirst(name, prof, saveOK) ==
    /\ pc = "idle"
    /\ config' = [config EXCEPT !.Profiles = Put(@, name, prof)]
    /\ opErr' = IF ~Exists(prof.Provider) THEN "unknown provider" ELSE Save(saveOK)
    /\ UNCHANGED <<provider, callVars, calls, forward, secrets, registry, storeVars>>

AddProfile(name, prof, saveOK) ==
    /\ pc = "idle"
    /\ IF ~Exists(prof.Provider)
       THEN /\ opErr' = "unknown provider"
            /\ UNCHANGED config
       ELSE /\ config' = [config EXCEPT !.Profiles = Put(@, name, prof)]
            /\ opErr' = Save(saveOK)
    /\ UNCHANGED <<provider, callVars, calls, forward, secrets, registry, storeVars>>

\* Bug: the default profile can be removed.
RemoveProfileNoDefaultCheck(name, saveOK) ==
    /\ pc = "idle"
    /\ IF name \notin DOMAIN config.Profiles
       THEN /\ opErr' = "profile not found"
            /\ UNCHANGED config
       ELSE /\ config' = [config EXCEPT !.Profiles = Delete(@, name)]
            /\ opErr' = Save(saveOK)
    /\ UNCHANGED <<provider, callVars, calls, forward, secrets, registry, storeVars>>

RemoveProfile(name, saveOK) ==
    /\ pc = "idle"
    /\ IF name \notin DOMAIN config.Profiles
       THEN /\ opErr' = "profile not found"
            /\ UNCHANGED config
       ELSE IF config.DefaultProfile = name
       THEN /\ opErr' = "cannot remove default profile"
            /\ UNCHANGED config
       ELSE /\ config' = [config EXCEPT !.Profiles = Delete(@, name)]
            /\ opErr' = Save(saveOK)
    /\ UNCHANGED <<provider, callVars, calls, forward, secrets, registry, storeVars>>

SetDefaultProfile(name, saveOK) ==
    /\ pc = "idle"
    /\ IF name \notin DOMAIN config.Profiles
       THEN /\ opErr' = "profile not found"
            /\ UNCHANGED config
       ELSE /\ config' = [config EXCEPT !.DefaultProfile = name]
            /\ opErr' = Save(saveOK)
    /\ UNCHANGED <<provider, callVars, calls, forward, secrets, registry, storeVars>>

\* The account names of a slice, as a set.
Elems(accounts) == {accounts[i] : i \in DOMAIN accounts}

\* Bug: the account is appended whether or not it is already there.
AddProviderAccountAlwaysAppend(prov, account, apiKey, saveOK, secretsOK) ==
    /\ pc = "idle"
    /\ IF ~Exists(prov)
       THEN /\ opErr' = "unknown provider"
            /\ UNCHANGED <<config, secrets>>
       ELSE LET providerConfig == Lookup(config.Providers, prov, NoProviderConfig)
            IN  /\ config' = [config EXCEPT !.Providers =
                       Put(@, prov, [providerConfig EXCEPT
                                       !.Accounts = Append(@, account)])]
                /\ secrets' = Put(secrets, secretKey(<<prov>>, <<account>>), apiKey)
                /\ opErr' = IF saveOK THEN SaveSecrets(secretsOK) ELSE Save(saveOK)
    /\ UNCHANGED <<provider, callVars, calls, forward, registry, storeVars>>

AddProviderAccount(prov, account, apiKey, saveOK, secretsOK) ==
    /\ pc = "idle"
    /\ IF ~Exists(prov)
       THEN /\ opErr' = "unknown provider"
            /\ UNCHANGED <<config, secrets>>
       ELSE LET providerConfig == Lookup(config.Providers, prov, NoProviderConfig)
            IN  IF account \in Elems(providerConfig.Accounts)
                THEN /\ secrets' = Put(secrets, secretKey(<<prov>>, <<account>>), apiKey)
                     /\ opErr' = SaveSecrets(secretsOK)
                     /\ UNCHANGED config
                ELSE /\ config' = [config EXCEPT !.Providers =
                            Put(@, prov, [providerConfig EXCEPT
                                            !.Accounts = Append(@, account)])]
                     /\ secrets' = Put(secrets, secretKey(<<prov>>, <<account>>), apiKey)
                     /\ opErr' = IF saveOK THEN SaveSecrets(secretsOK) ELSE Save(saveOK)
    /\ UNCHANGED <<provider, callVars, calls, forward, registry, storeVars>>

\* Bug: the account's secret is left in the map.
RemoveProviderAccountKeepSecret(prov, account, saveOK, secretsOK) ==
    /\ pc = "idle"
    /\ IF prov \notin DOMAIN config.Providers
       THEN /\ opErr' = "provider not configured"
            /\ UNCHANGED <<config, secrets>>
       ELSE LET providerConfig == config.Providers[prov]
                keep(a) == a # account
            IN  IF account \notin Elems(providerConfig.Accounts)
                THEN /\ opErr' = "account not found"
                     /\ UNCHANGED <<config, secrets>>
                ELSE /\ config' = [config EXCEPT !.Providers =
                            Put(@, prov, [providerConfig EXCEPT
                                            !.Accounts = SelectSeq(@, keep)])]
                     /\ UNCHANGED secrets
                     /\ opErr' = IF saveOK THEN SaveSecrets(secretsOK) ELSE Save(saveOK)
    /\ UNCHANGED <<provider, callVars, calls, forward, registry, storeVars>>

RemoveProviderAccount(prov, account, saveOK, secretsOK) ==
    /\ pc = "idle"
    /\ IF prov \notin DOMAIN config.Providers
       THEN /\ opErr' = "provider not configured"
            /\ UNCHANGED <<config, secrets>>
       ELSE LET providerConfig == config.Providers[prov]
                keep(a) == a # account
            IN  IF account \notin Elems(providerConfig.Accounts)
                THEN /\ opErr' = "account not found"
                     /\ UNCHANGED <<config, secrets>>
                ELSE /\ config' = [config EXCEPT !.Providers =
                            Put(@, prov, [providerConfig EXCEPT
                                            !.Accounts = SelectSeq(@, keep)])]
                     /\ secrets' = Delete(secrets, secretKey(<<prov>>, <<account>>))
                     /\ opErr' = IF saveOK THEN SaveSecrets(secretsOK) ELSE Save(saveOK)
    /\ UNCHANGED <<provider, callVars, calls, forward, registry, storeVars>>

\* Client.Complete: resolve the profile, get the adapter, call its Complete and
\* copy the Response.
ClientComplete(profileName, r, o) ==
    LET g == GetProfile(config, profileName)
    IN  IF g.err # "nil"
        THEN /\ pc = "idle"
             /\ result' = Fail(g.err)
             /\ pc' = "returned"
             /\ UNCHANGED <<provider, req, httpReq, wire, httpCalls, outcome, ret,
                            started, lines, scanEnd, currentEvent, sendq, next, sent,
                            chClosed, bodyCloses, consumer, clientVars>>
        ELSE IF ~Exists(g.profile.Provider)
        THEN /\ pc = "idle"
             /\ result' = Fail("unknown provider")
             /\ pc' = "returned"
             /\ UNCHANGED <<provider, req, httpReq, wire, httpCalls, outcome, ret,
                            started, lines, scanEnd, currentEvent, sendq, next, sent,
                            chClosed, bodyCloses, consumer, clientVars>>
        ELSE Complete(g.profile.Provider, buildProviderRequest(g.profile, r), o)

\* Bug: the Name is written into the profile the configuration holds.
ClientGetProfileInPlace(name) ==
    LET g == GetProfile(config, name)
    IN  /\ pc = "idle"
        /\ got' = [op |-> "GetProfile", val |-> [name |-> name, profile |-> g.profile]]
        /\ opErr' = g.err
        /\ config' = IF g.err = "nil"
                     THEN [config EXCEPT !.Profiles[g.profile.Name] = g.profile]
                     ELSE config
        /\ UNCHANGED <<provider, callVars, calls, forward, secrets, registry,
                       keyFile, secretsFile>>

\* Client.GetProfile: Config.GetProfile on the client's configuration.
ClientGetProfile(name) ==
    LET g == GetProfile(config, name)
    IN  /\ pc = "idle"
        /\ got' = [op |-> "GetProfile", val |-> [name |-> name, profile |-> g.profile]]
        /\ opErr' = g.err
        /\ UNCHANGED <<provider, callVars, calls, forward, config, secrets, registry,
                       keyFile, secretsFile>>

\* The names a profile is asked for by.
AskedNames == ProfileNames \cup {"zz"}

ProfileNext ==
    \/ \E n \in ProfileNames, prof \in Profiles, ok \in BOOLEAN : AddProfile(n, prof, ok)
    \/ \E n \in ProfileNames, ok \in BOOLEAN : RemoveProfile(n, ok)
    \/ \E n \in ProfileNames, ok \in BOOLEAN : SetDefaultProfile(n, ok)
    \/ \E n \in AskedNames : ClientGetProfile(n)

ProfileSpec == Init /\ [][ProfileNext]_vars

\* What Client.Complete's HTTP call comes back with, in the runs of the client.
ClientReplies ==
    {o \in Replies :
       \/ o.kind = "doError"
       \/ o.kind = "response" /\ o.status = 401 /\ o.decodable /\ o.body = NoBody
       \/ /\ o.kind = "response" /\ o.status = StatusOK
          /\ o.body = Body(TRUE, <<"a">>, <<Block("text", "a")>>, "a", "")}

ConfigNext ==
    \/ \E n \in ProfileNames, prof \in Profiles, ok \in BOOLEAN : AddProfile(n, prof, ok)
    \/ \E n \in ProfileNames, ok \in BOOLEAN : RemoveProfile(n, ok)
    \/ \E n \in ProfileNames, ok \in BOOLEAN : SetDefaultProfile(n, ok)
    \/ \E prov \in AccountProviders, a \in AccountNames, k \in APIKeys,
          ok1 \in BOOLEAN, ok2 \in BOOLEAN : AddProviderAccount(prov, a, k, ok1, ok2)
    \/ \E prov \in AccountProviders, a \in AccountNames,
          ok1 \in BOOLEAN, ok2 \in BOOLEAN : RemoveProviderAccount(prov, a, ok1, ok2)
    \/ \E n \in ProfileNames, o \in ClientReplies : ClientComplete(n, DefaultRequest, o)

ConfigSpec == Init /\ [][ConfigNext]_vars

\* C27: RemoveProfile on the current default profile returns an error and leaves
\* the profiles and the default unchanged; so, from the empty configuration, after
\* any sequence of AddProfile, RemoveProfile and SetDefaultProfile calls the
\* default profile is either unset or names a profile that exists.
C27_DefaultProfileExists ==
    /\ [][\A n \in ProfileNames, ok \in BOOLEAN :
             (RemoveProfile(n, ok) /\ n = config.DefaultProfile)
                => (opErr' # "nil" /\ config' = config)]_vars
    /\ [](config.DefaultProfile = "" \/ config.DefaultProfile \in DOMAIN config.Profiles)

\* "a" is the default profile, "b" exists too, and the removal of "a" was refused.
C27_Witness ==
    /\ config.DefaultProfile = "a"
    /\ DOMAIN config.Profiles = {"a", "b"}
    /\ opErr = "cannot remove default profile"

\* C28: AddProviderAccount for a provider/account pair that already exists
\* replaces the stored API key and adds no second entry; after any sequence of
\* AddProviderAccount and RemoveProviderAccount calls no provider's account list
\* holds the same account name twice.
C28_NoDuplicateAccounts ==
    /\ [][\A prov \in AccountProviders, a \in AccountNames, k \in APIKeys,
             ok1 \in BOOLEAN, ok2 \in BOOLEAN :
             (/\ AddProviderAccount(prov, a, k, ok1, ok2)
              /\ prov \in DOMAIN config.Providers
              /\ a \in Elems(config.Providers[prov].Accounts))
                => (/\ config'.Providers[prov].Accounts = config.Providers[prov].Accounts
                    /\ secrets'[secretKey(<<prov>>, <<a>>)] = k)]_vars
    /\ [](\A prov \in DOMAIN config.Providers :
            \A i, j \in DOMAIN config.Providers[prov].Accounts :
               config.Providers[prov].Accounts[i] = config.Providers[prov].Accounts[j]
                  => i = j)

\* Account "x" of openai was added, then added again with another key; "y" was
\* added, removed and added again.
C28_Witness ==
    /\ "openai" \in DOMAIN config.Providers
    /\ config.Providers["openai"].Accounts = <<"x", "y">>
    /\ secrets[secretKey(<<"openai">>, <<"x">>)] = "k2"
    /\ secrets[secretKey(<<"openai">>, <<"y">>)] = "k1"

\* The profile's provider account is configured: an account entry or a stored secret.
AccountConfigured(prof) ==
    \/ /\ prof.Provider \in DOMAIN config.Providers
       /\ prof.Account \in Elems(config.Providers[prof.Provider].Accounts)
    \/ secretKey(<<prof.Provider>>, <<prof.Account>>) \in DOMAIN secrets

\* C29: Client.Complete with a profile whose provider account is not configured
\* (no account entry and no stored secret for provider:account) returns an error
\* to the caller and sends no request to the provider.
C29_UnconfiguredAccountRefused ==
    [][\A n \in ProfileNames, o \in ClientReplies :
          (/\ ClientComplete(n, DefaultRequest, o)
           /\ GetProfile(config, n).err = "nil"
           /\ ~AccountConfigured(GetProfile(config, n).profile))
             => (result'.err # "nil" /\ httpCalls' = httpCalls)]_vars

\* C31: GetProfile with an empty name resolves to the default profile and returns
\* it with Name set to the default's name; it returns an error when the name is
\* empty and no default is set, and when the resolved name is not a configured
\* profile; GetProfile never changes the configuration.
C31_GetProfileResolvesDefault ==
    [][\A n \in AskedNames :
          ClientGetProfile(n)
             => LET name == IF n = "" THEN config.DefaultProfile ELSE n
                IN  /\ config' = config
                    /\ (name = "" \/ name \notin DOMAIN config.Profiles)
                          => (opErr' # "nil" /\ got'.val.profile = NoProfile)
                    /\ (name # "" /\ name \in DOMAIN config.Profiles)
                          => /\ opErr' = "nil"
                             /\ got'.val.profile.Name = name
                             /\ got'.val.profile.Provider = config.Profiles[name].Provider
                             /\ got'.val.profile.Account = config.Profiles[name].Account
                             /\ got'.val.profile.Model = config.Profiles[name].Model]_vars

\* GetProfile("") has returned the default profile "b" with its Name, while the
\* stored profile has no Name.
C31_Witness ==
    /\ got.op = "GetProfile"
    /\ got.val.name = ""
    /\ opErr = "nil"
    /\ config.DefaultProfile = "b"
    /\ got.val.profile.Name = "b"
    /\ config.Profiles["b"].Name = ""
    /\ got.val.profile.Provider = "ollama"

\* C32: AddProfile with a provider name that is not registered, and
\* AddProviderAccount with a provider name that is not registered, return an
\* error and leave profiles, provider accounts and secrets unchanged.
C32_UnknownProviderRefused ==
    [][/\ \A n \in ProfileNames, prof \in Profiles, ok \in BOOLEAN :
             (AddProfile(n, prof, ok) /\ prof.Provider \notin DOMAIN registry)
                => (opErr' # "nil" /\ config' = config /\ secrets' = secrets)
       /\ \A prov \in AccountProviders, a \in AccountNames, k \in APIKeys,
             ok1 \in BOOLEAN, ok2 \in BOOLEAN :
             (AddProviderAccount(prov, a, k, ok1, ok2) /\ prov \notin DOMAIN registry)
                => (opErr' # "nil" /\ config' = config /\ secrets' = secrets)]_vars

\* A call with an unregistered provider was refused on a client that has a
\* profile, an account and a secret.
C32_Witness ==
    /\ opErr = "unknown provider"
    /\ DOMAIN config.Profiles = {"a"}
    /\ DOMAIN config.Providers = {"openai"}
    /\ config.Providers["openai"].Accounts = <<"x">>
    /\ DOMAIN secrets = {secretKey(<<"openai">>, <<"x">>)}

----------------------------------------------------------------------------
(* The secret store: master.key, secrets.enc and the functions on them. *)

\* The keys rand.Reader may give, and the names the store is called with: a
\* string is the sequence of its parts.
MasterKeys == {"K1", "K2"}
StoreProviders == {<<"a">>, <<"a", ":", "b">>}
StoreAccounts == {<<"c">>, <<"b", ":", "c">>}

\* Bug: a new key is written over the one that is there.
InitSecretsOverwrite(key, randOK, writeOK) ==
    /\ IF ~randOK
       THEN /\ opErr' = "cannot generate random key"
            /\ UNCHANGED keyFile
       ELSE IF ~writeOK
       THEN /\ opErr' = "cannot write master key"
            /\ UNCHANGED keyFile
       ELSE /\ keyFile' = File(key)
            /\ opErr' = "nil"
    /\ got' = [op |-> "InitSecrets", val |-> ""]
    /\ UNCHANGED <<provider, callVars, calls, forward, config, secrets, registry,
                   secretsFile>>

InitSecrets(key, randOK, writeOK) ==
    /\ IF keyFile # NoFile
       THEN /\ opErr' = "nil"
            /\ UNCHANGED keyFile
       ELSE IF ~randOK
       THEN /\ opErr' = "cannot generate random key"
            /\ UNCHANGED keyFile
       ELSE IF ~writeOK
       THEN /\ opErr' = "cannot write master key"
            /\ UNCHANGED keyFile
       ELSE /\ keyFile' = File(key)
            /\ opErr' = "nil"
    /\ got' = [op |-> "InitSecrets", val |-> ""]
    /\ UNCHANGED <<provider, callVars, calls, forward, config, secrets, registry,
                   secretsFile>>

\* loadMasterKey: ([]byte, error)
loadMasterKey(kf) ==
    IF kf = NoFile
    THEN [key |-> "", err |-> "master key not found"]
    ELSE [key |-> kf[1], err |-> "nil"]

\* AES-GCM: what was sealed under a key opens under that key only.
encrypt(key, plaintext) == [key |-> key, secrets |-> plaintext]
decrypt(key, data) ==
    IF data.key = key
    THEN [plaintext |-> data.secrets, err |-> "nil"]
    ELSE [plaintext |-> EmptyMap, err |-> "decryption failed"]

\* LoadSecrets: (map[string]string, error)
LoadSecrets(kf, sf) ==
    LET k == loadMasterKey(kf)
    IN  IF k.err # "nil" THEN [secrets |-> EmptyMap, err |-> k.err]
        ELSE IF sf = NoFile THEN [secrets |-> EmptyMap, err |-> "nil"]
        ELSE LET d == decrypt(k.key, sf[1])
             IN  IF d.err # "nil"
                 THEN [secrets |-> EmptyMap, err |-> "cannot decrypt secrets"]
                 ELSE [secrets |-> d.plaintext, err |-> "nil"]

\* SaveSecrets on the files: the secrets file after it, and its error.
WriteSecrets(kf, sf, m, writeOK) ==
    LET k == loadMasterKey(kf)
    IN  IF k.err # "nil" THEN [file |-> sf, err |-> k.err]
        ELSE IF ~writeOK THEN [file |-> sf, err |-> "cannot write secrets file"]
        ELSE [file |-> File(encrypt(k.key, m)), err |-> "nil"]

\* GetSecret and HasSecret as functions of the files.
GetSecretOf(kf, sf, prov, account) ==
    LET l == LoadSecrets(kf, sf)
    IN  IF l.err # "nil" THEN [secret |-> "", err |-> l.err]
        ELSE IF secretKey(prov, account) \notin DOMAIN l.secrets
        THEN [secret |-> "", err |-> "no secret found"]
        ELSE [secret |-> l.secrets[secretKey(prov, account)], err |-> "nil"]

HasSecretOf(kf, sf, prov, account) ==
    LET l == LoadSecrets(kf, sf)
    IN  IF l.err # "nil" THEN [has |-> FALSE, err |-> l.err]
        ELSE [has |-> secretKey(prov, account) \in DOMAIN l.secrets, err |-> "nil"]

GetSecret(prov, account) ==
    LET g == GetSecretOf(keyFile, secretsFile, prov, account)
    IN  /\ got' = [op |-> "GetSecret", val |-> g.secret]
        /\ opErr' = g.err
        /\ UNCHANGED <<provider, callVars, calls, forward, config, secrets, registry,
                       keyFile, secretsFile>>

HasSecret(prov, account) ==
    LET h == HasSecretOf(keyFile, secretsFile, prov, account)
    IN  /\ got' = [op |-> "HasSecret", val |-> h.has]
        /\ opErr' = h.err
        /\ UNCHANGED <<provider, callVars, calls, forward, config, secrets, registry,
                       keyFile, secretsFile>>

SetSecret(prov, account, apiKey, writeOK) ==
    LET l == LoadSecrets(keyFile, secretsFile)
        w == WriteSecrets(keyFile, secretsFile,
                          Put(l.secrets, secretKey(prov, account), apiKey), writeOK)
    IN  /\ IF l.err # "nil"
           THEN /\ opErr' = l.err
                /\ UNCHANGED secretsFile
           ELSE /\ secretsFile' = w.file
                /\ opErr' = w.err
        /\ got' = [op |-> "SetSecret", val |-> ""]
        /\ UNCHANGED <<provider, callVars, calls, forward, config, secrets, registry,
                       keyFile>>

DeleteSecret(prov, account, writeOK) ==
    LET l == LoadSecrets(keyFile, secretsFile)
        w == WriteSecrets(keyFile, secretsFile,
                          Delete(l.secrets, secretKey(prov, account)), writeOK)
    IN  /\ IF l.err # "nil"
           THEN /\ opErr' = l.err
                /\ UNCHANGED secretsFile
           ELSE IF secretKey(prov, account) \notin DOMAIN l.secrets
           THEN /\ opErr' = "no secret found"
                /\ UNCHANGED secretsFile
           ELSE /\ secretsFile' = w.file
                /\ opErr' = w.err
        /\ got' = [op |-> "DeleteSecret", val |-> ""]
        /\ UNCHANGED <<provider, callVars, calls, forward, config, secrets, registry,
                       keyFile>>

SecretNext ==
    \/ \E key \in MasterKeys, ok1 \in BOOLEAN, ok2 \in BOOLEAN : InitSecrets(key, ok1, ok2)
    \/ \E prov \in StoreProviders, a \in StoreAccounts, k \in APIKeys, ok \in BOOLEAN :
          SetSecret(prov, a, k, ok)
    \/ \E prov \in StoreProviders, a \in StoreAccounts, ok \in BOOLEAN :
          DeleteSecret(prov, a, ok)
    \/ \E prov \in StoreProviders, a \in StoreAccounts : GetSecret(prov, a)
    \/ \E prov \in StoreProviders, a \in StoreAccounts : HasSecret(prov, a)

SecretSpec == Init /\ [][SecretNext]_vars

\* The other provider:account pairs keep what GetSecret returns for them.
OthersKept(prov, account) ==
    \A q \in StoreProviders, b \in StoreAccounts :
       <<q, b>> # <<prov, account>>
          => GetSecretOf(keyFile', secretsFile', q, b)
               = GetSecretOf(keyFile, secretsFile, q, b)

\* C33: after SetSecret(p, a, k) GetSecret(p, a) returns k and HasSecret(p, a) is
\* true; after DeleteSecret(p, a) GetSecret(p, a) returns an error; DeleteSecret
\* of a pair that has no secret returns an error and changes nothing; secrets of
\* other provider:account pairs are never affected by these operations.
C33_SecretStore ==
    [][/\ \A prov \in StoreProviders, a \in StoreAccounts, k \in APIKeys, ok \in BOOLEAN :
             SetSecret(prov, a, k, ok)
                => /\ opErr' = "nil"
                        => /\ GetSecretOf(keyFile', secretsFile', prov, a)
                                = [secret |-> k, err |-> "nil"]
                           /\ HasSecretOf(keyFile', secretsFile', prov, a)
                                = [has |-> TRUE, err |-> "nil"]
                   /\ OthersKept(prov, a)
       /\ \A prov \in StoreProviders, a \in StoreAccounts, ok \in BOOLEAN :
             DeleteSecret(prov, a, ok)
                => /\ opErr' = "nil"
                        => GetSecretOf(keyFile', secretsFile', prov, a).err # "nil"
                   /\ GetSecretOf(keyFile, secretsFile, prov, a).err # "nil"
                        => (opErr' # "nil" /\ secretsFile' = secretsFile)
                   /\ OthersKept(prov, a)
       /\ \A prov \in StoreProviders, a \in StoreAccounts :
             (GetSecret(prov, a) \/ HasSecret(prov, a))
                => (keyFile' = keyFile /\ secretsFile' = secretsFile)]_vars

\* C34: InitSecrets is idempotent: when the master key file already exists, a
\* further InitSecrets call succeeds and leaves the key unchanged, so secrets
\* saved before the call remain loadable after it.
C34_InitSecretsIdempotent ==
    [][\A key \in MasterKeys, ok1 \in BOOLEAN, ok2 \in BOOLEAN :
          (InitSecrets(key, ok1, ok2) /\ keyFile # NoFile)
             => /\ opErr' = "nil"
                /\ keyFile' = keyFile
                /\ LoadSecrets(keyFile', secretsFile') = LoadSecrets(keyFile, secretsFile)
                /\ LoadSecrets(keyFile', secretsFile').err = "nil"]_vars

\* InitSecrets has run again on a store that holds two secrets, and they load.
C34_Witness ==
    /\ got.op = "InitSecrets"
    /\ opErr = "nil"
    /\ secretsFile # NoFile
    /\ LoadSecrets(keyFile, secretsFile).err = "nil"
    /\ Cardinality(DOMAIN LoadSecrets(keyFile, secretsFile).secrets) = 2

----------------------------------------------------------------------------
(* The provider registry: Register, Get, List, Exists. *)

\* The names Register is called with, and the bytes of each.
RegistryNames == {"anthropic", "ollama", "openai", "mock", "o", "Zed"}
Bytes ==
    [anthropic |-> <<97, 110, 116, 104, 114, 111, 112, 105, 99>>,
     ollama |-> <<111, 108, 108, 97, 109, 97>>,
     openai |-> <<111, 112, 101, 110, 97, 105>>,
     mock |-> <<109, 111, 99, 107>>,
     o |-> <<111>>,
     Zed |-> <<90, 101, 100>>]

\* A Constructor, by the Provider it returns.
Constructors == {NewProvider("mock"), NewProvider("other")}
NoProvider == [name |-> ""]

Register(name, constructor) ==
    /\ pc = "idle"
    /\ registry' = Put(registry, name, constructor)
    /\ UNCHANGED <<provider, callVars, calls, forward, config, secrets, opErr, storeVars>>

\* Get: (Provider, error)
Get(name) ==
    IF name \notin DOMAIN registry
    THEN [provider |-> NoProvider, err |-> "unknown provider"]
    ELSE [provider |-> registry[name], err |-> "nil"]

\* Go's string order: byte by byte, a proper prefix first.
RECURSIVE LessBytes(_, _)
LessBytes(s, t) ==
    IF t = <<>> THEN FALSE
    ELSE IF s = <<>> THEN TRUE
    ELSE IF Head(s) # Head(t) THEN Head(s) < Head(t)
    ELSE LessBytes(Tail(s), Tail(t))

Less(a, b) == LessBytes(Bytes[a], Bytes[b])

\* sort.Strings, as an insertion sort.
RECURSIVE Insert(_, _)
Insert(x, s) ==
    IF s = <<>> THEN <<x>>
    ELSE IF Less(Head(s), x) THEN <<Head(s)>> \o Insert(x, Tail(s))
    ELSE <<x>> \o s

RECURSIVE SortStrings(_)
SortStrings(s) == IF s = <<>> THEN <<>> ELSE Insert(Head(s), SortStrings(Tail(s)))

\* The orders in which `for name := range registry` may visit the keys.
RECURSIVE RangeOrders(_)
RangeOrders(S) ==
    IF S = {} THEN {<<>>}
    ELSE UNION {{<<x>> \o rest : rest \in RangeOrders(S \ {x})} : x \in S}

\* Bug: the names are returned in the map's iteration order.
ListUnsorted(order) == order

\* List, when the range over the map visits the keys in this order.
List(order) == SortStrings(order)

RegistryNext ==
    \E n \in RegistryNames, c \in Constructors : Register(n, c)

RegistrySpec == Init /\ [][RegistryNext]_vars

\* C30: after any sequence of Register calls, Exists(n) is true exactly for the
\* registered names, Get(n) returns a provider for exactly those names and an
\* error for every other name, and List returns each registered name exactly
\* once in ascending order; registering a name again replaces its constructor
\* and adds no second entry.
C30_RegistryLookup ==
    /\ [](/\ \A n \in RegistryNames :
              /\ Exists(n) <=> n \in DOMAIN registry
              /\ Get(n).err = "nil" <=> n \in DOMAIN registry
              /\ Get(n).err = "nil" => Get(n).provider = registry[n]
              /\ Get(n).err # "nil" => Get(n).provider = NoProvider
           /\ \A order \in RangeOrders(DOMAIN registry) :
              LET names == List(order)
              IN  /\ Elems(names) = DOMAIN registry
                  /\ Len(names) = Cardinality(DOMAIN registry)
                  /\ \A i, j \in DOMAIN names : i < j => Less(names[i], names[j]))
    /\ [][\A n \in RegistryNames, c \in Constructors :
             Register(n, c)
                => /\ registry'[n] = c
                   /\ DOMAIN registry' = DOMAIN registry \cup {n}
                   /\ \A m \in DOMAIN registry \ {n} : registry'[m] = registry[m]]_vars

\* "Zed", "mock" and "o" were registered beside the three adapters, and "openai"
\* and "mock" were registered again with another constructor.
C30_Witness ==
    /\ DOMAIN registry = RegistryNames
    /\ registry["openai"] = NewProvider("other")
    /\ registry["mock"] = NewProvider("other")
    /\ registry["o"] = NewProvider("mock")
    /\ List(<<"openai", "o", "mock", "ollama", "anthropic", "Zed">>)
          = <<"Zed", "anthropic", "mock", "o", "ollama", "openai">>

----------------------------------------------------------------------------
(* Client.CompleteStream: a goroutine ranges over the adapter's channel and *)
(* sends every Chunk on to the channel the caller ranges over.              *)

LiveWire(p) ==
    CASE p = "openai" -> {CommentLine, OpenAIData("a"), DoneLine, BadDataLine}
      [] p = "anthropic" ->
           {EventLine("content_block_delta"), EventLine("message_stop"),
            AnthropicData("a"), BadDataLine}
      [] p = "ollama" -> {EmptyLine, OllamaLine("a", FALSE), OllamaLine("b", TRUE),
                          OllamaErrorLine}
      [] OTHER -> {}

\* The adapter's `ch <- chunk`: the receiver is the client's goroutine, which
\* receives again only after it has passed the last Chunk on.
ProviderSend ==
    /\ forward.count = Len(sent)
    /\ Send

\* Bug: the client's goroutine returns without closing its channel.
ForwardCloseMissing ==
    /\ chClosed
    /\ forward.count = Len(sent)
    /\ ~forward.closed
    /\ UNCHANGED vars

\* The sage Chunk made of a provider Chunk.
SageChunk(providerChunk) ==
    [Content |-> providerChunk.Content,
     Done |-> providerChunk.Done,
     Error |-> providerChunk.Error]

\* Bug: the Error of the provider's Chunk is not copied.
ForwardDropError ==
    /\ ret.ch
    /\ forward.count < Len(sent)
    /\ forward' = [forward EXCEPT
                     !.count = @ + 1,
                     !.out = Append(@, [SageChunk(sent[forward.count + 1])
                                          EXCEPT !.Error = "nil"])]
    /\ UNCHANGED <<provider, callVars, calls, config, secrets, opErr, registry, storeVars>>

\* The client's `ch <- Chunk{...}`, received by the caller.
Forward ==
    /\ ret.ch
    /\ forward.count < Len(sent)
    /\ forward' = [forward EXCEPT
                     !.count = @ + 1,
                     !.out = Append(@, SageChunk(sent[forward.count + 1]))]
    /\ UNCHANGED <<provider, callVars, calls, config, secrets, opErr, registry, storeVars>>

\* The range over the adapter's channel ends; the deferred close(ch) runs.
ForwardClose ==
    /\ chClosed
    /\ forward.count = Len(sent)
    /\ ~forward.closed
    /\ forward' = [forward EXCEPT !.closed = TRUE]
    /\ UNCHANGED <<provider, callVars, calls, config, secrets, opErr, registry, storeVars>>

\* The steps of the adapter's goroutine under Client.CompleteStream.
ProviderGoroutine ==
    \/ \E l \in LiveWire(provider) : ScanLine(l)
    \/ ScanEOF
    \/ ScanError
    \/ ProviderSend
    \/ CloseBody
    \/ CloseChan

\* The steps of the client's goroutine and of the caller that ranges over ch.
ClientGoroutine ==
    \/ Forward
    \/ ForwardClose

LiveNext ==
    \/ \E p \in Providers, o \in Outcomes : CompleteStream(p, DefaultRequest, o)
    \/ ProviderGoroutine
    \/ ClientGoroutine

\* The Go scheduler runs every goroutine that can take a step.
LiveSpec ==
    Init /\ [][LiveNext]_vars /\ WF_vars(ProviderGoroutine) /\ WF_vars(ClientGoroutine)

----------------------------------------------------------------------------
(* Several CompleteStream calls on one adapter value. The adapter structs   *)
(* have no fields: resp, ch, scanner and currentEvent are locals of the     *)
(* call and of its goroutine, kept here per call.                           *)

ConcWire(p) ==
    CASE p = "openai" -> {OpenAIData("a"), OpenAIData("b"), DoneLine, BadDataLine}
      [] p = "anthropic" ->
           {EventLine("content_block_delta"), EventLine("message_stop"),
            AnthropicData("a"), AnthropicData("b"), BadDataLine}
      [] p = "ollama" -> {OllamaLine("a", FALSE), OllamaLine("b", TRUE), BadDataLine}
      [] OTHER -> {}

\* Call c of CompleteStream on adapter p, up to its return.
CallStart(c, p, o) ==
    /\ calls[c].pc = "idle"
    /\ provider \in {"none", p}
    /\ provider' = p
    /\ calls' = [calls EXCEPT ![c] =
         IF o.kind = "newRequestError"
         THEN [@ EXCEPT !.pc = "returned", !.err = "failed to create request"]
         ELSE IF o.kind = "doError"
         THEN [@ EXCEPT !.pc = "returned", !.err = "request failed"]
         ELSE IF o.status # StatusOK
         THEN [@ EXCEPT !.pc = "returned",
                        !.err = HandleError(p, o.status, o.decodable),
                        !.bodyCloses = @ + 1]
         ELSE [@ EXCEPT !.pc = "scan"]]
    /\ UNCHANGED <<callVars, forward, config, secrets, opErr, registry, storeVars>>

\* Bug: currentEvent is a field of the adapter, shared by its calls.
CallScanLineSharedEvent(c, l) ==
    /\ calls[c].pc = "scan"
    /\ Len(calls[c].lines) < MaxCallLines
    /\ LET d == Decode(provider, currentEvent, l)
       IN  /\ currentEvent' = d.event
           /\ calls' = [calls EXCEPT ![c] =
                [@ EXCEPT !.lines = Append(@, l),
                          !.currentEvent = d.event,
                          !.sendq = d.out,
                          !.next = IF d.stop THEN "exit" ELSE "scan",
                          !.pc = IF d.out # <<>> THEN "send"
                                 ELSE IF d.stop THEN "closeBody" ELSE "scan"]]
    /\ UNCHANGED <<provider, req, httpReq, wire, httpCalls, result, outcome, pc, ret,
                   started, lines, scanEnd, sendq, next, sent, chClosed, bodyCloses,
                   consumer, forward, config, secrets, opErr, registry, storeVars>>

\* Call c: scanner.Scan() returns true with line l.
CallScanLine(c, l) ==
    /\ calls[c].pc = "scan"
    /\ Len(calls[c].lines) < MaxCallLines
    /\ LET d == Decode(provider, calls[c].currentEvent, l)
       IN  calls' = [calls EXCEPT ![c] =
                [@ EXCEPT !.lines = Append(@, l),
                          !.currentEvent = d.event,
                          !.sendq = d.out,
                          !.next = IF d.stop THEN "exit" ELSE "scan",
                          !.pc = IF d.out # <<>> THEN "send"
                                 ELSE IF d.stop THEN "closeBody" ELSE "scan"]]
    /\ UNCHANGED <<provider, callVars, forward, config, secrets, opErr, registry, storeVars>>

\* Call c: end of body.
CallScanEOF(c) ==
    /\ calls[c].pc = "scan"
    /\ calls' = [calls EXCEPT ![c] =
         [@ EXCEPT !.scanEnd = "eof", !.next = "exit", !.pc = "closeBody"]]
    /\ UNCHANGED <<provider, callVars, forward, config, secrets, opErr, registry, storeVars>>

\* Call c: read error.
CallScanError(c) ==
    /\ calls[c].pc = "scan"
    /\ calls' = [calls EXCEPT ![c] =
         [@ EXCEPT !.scanEnd = "err", !.sendq = <<ErrorChunk(ReadError)>>,
                   !.next = "exit", !.pc = "send"]]
    /\ UNCHANGED <<provider, callVars, forward, config, secrets, opErr, registry, storeVars>>

\* Call c: ch <- chunk, received by the consumer of call c.
CallSend(c) ==
    /\ calls[c].pc = "send"
    /\ calls' = [calls EXCEPT ![c] =
         [@ EXCEPT !.sent = Append(@, Head(calls[c].sendq)),
                   !.sendq = Tail(@),
                   !.pc = IF Tail(calls[c].sendq) # <<>> THEN "send"
                          ELSE IF calls[c].next = "exit" THEN "closeBody" ELSE "scan"]]
    /\ UNCHANGED <<provider, callVars, forward, config, secrets, opErr, registry, storeVars>>

\* Call c: the goroutine returns; resp.Body.Close() and close(ch) run.
CallReturn(c) ==
    /\ calls[c].pc = "closeBody"
    /\ calls' = [calls EXCEPT ![c] =
         [@ EXCEPT !.bodyCloses = @ + 1, !.chClosed = TRUE, !.pc = "done"]]
    /\ UNCHANGED <<provider, callVars, forward, config, secrets, opErr, registry, storeVars>>

ConcNext ==
    \E c \in Calls :
       \/ \E p \in Providers, o \in Outcomes : CallStart(c, p, o)
       \/ \E l \in ConcWire(provider) : CallScanLine(c, l)
       \/ CallScanEOF(c)
       \/ CallScanError(c)
       \/ CallSend(c)
       \/ CallReturn(c)

ConcSpec == Init /\ [][ConcNext]_vars

\* One call of Complete or of CompleteStream up to its return, for every request.
RequestNext ==
    /\ pc = "idle"
    /\ \/ \E p \in Providers, r \in Requests, o \in Replies : Complete(p, r, o)
       \/ \E p \in Providers, r \in Requests, o \in Outcomes : CompleteStream(p, r, o)

RequestSpec == Init /\ [][RequestNext]_vars

\* What the HTTP call of openai.ListModels can come back with.
ModelsReplies ==
    UNION {{[kind |-> o.kind, status |-> o.status, decodable |-> o.decodable, body |-> b] :
              b \in IF o.kind = "response" /\ o.status = StatusOK THEN ModelsBodies
                    ELSE {[json |-> FALSE, data |-> <<>>]}} :
           o \in Outcomes}

\* One call of Complete, CompleteStream or openai.ListModels up to its return,
\* for every API key and base-URL override.
EndpointNext ==
    /\ pc = "idle"
    /\ \/ \E p \in Providers, r \in EndpointRequests, o \in Replies : Complete(p, r, o)
       \/ \E p \in Providers, r \in EndpointRequests, o \in Outcomes :
            CompleteStream(p, r, o)
       \/ \E k \in {"", "k"}, u \in BaseURLs, o \in ModelsReplies : ListModels(k, u, o)

EndpointSpec == Init /\ [][EndpointNext]_vars

----------------------------------------------------------------------------
(* What the protocol descriptions say a body yields, stated on the lines   *)
(* read, for the properties below.                                         *)

IsTerminal(c) == c.Done \/ c.Error # "nil"
IsContent(c) == ~IsTerminal(c)
NumTerminal(cs) == Cardinality({i \in DOMAIN cs : IsTerminal(cs[i])})
NumErrors(cs) == Cardinality({i \in DOMAIN cs : cs[i].Error # "nil"})
TerminalSent == \E i \in DOMAIN sent : IsTerminal(sent[i])
Exiting == pc \in {"closeBody", "closeCh", "done"}

\* The event type in force at line i: that of the last `event: ` line before it.
EventAt(ls, i) ==
    LET E == {j \in 1..(i - 1) : ls[j].prefix = "event: "}
    IN  IF E = {} THEN ""
        ELSE ls[CHOOSE j \in E : \A k \in E : k <= j].text

\* The text of the content delta line i carries, "" when it carries none.
DeltaText(p, ls, i) ==
    LET l == ls[i]
    IN  CASE p = "openai" ->
               IF l.prefix = "data: " /\ l.json /\ l.choices # <<>>
               THEN l.choices[1] ELSE ""
          [] p = "anthropic" ->
               IF /\ l.prefix = "data: " /\ l.json /\ l.delta # <<>>
                  /\ l.delta[1].type = "text_delta"
                  /\ EventAt(ls, i) = "content_block_delta"
               THEN l.delta[1].text ELSE ""
          [] p = "ollama" ->
               IF l.prefix = "" /\ l.json /\ l.error = "" THEN l.content ELSE ""
          [] OTHER -> ""

\* The content Chunks of the first n lines, in the order of the lines.
RECURSIVE ContentsOf(_, _, _)
ContentsOf(p, ls, n) ==
    IF n = 0 THEN <<>>
    ELSE ContentsOf(p, ls, n - 1)
         \o (IF DeltaText(p, ls, n) # "" THEN <<ContentChunk(DeltaText(p, ls, n))>>
             ELSE <<>>)

\* Line i is a well-formed content delta with non-empty text.
IsContentDelta(p, ls, i) ==
    /\ DeltaText(p, ls, i) # ""
    /\ p = "ollama" => ~ls[i].done

\* Line i is a well-formed content delta whose text is empty.
IsEmptyDelta(p, ls, i) ==
    LET l == ls[i]
    IN  CASE p = "openai" ->
               l.prefix = "data: " /\ l.json /\ l.choices # <<>> /\ l.choices[1] = ""
          [] p = "anthropic" ->
               /\ l.prefix = "data: " /\ l.json /\ l.delta # <<>>
               /\ l.delta[1].type = "text_delta" /\ l.delta[1].text = ""
               /\ EventAt(ls, i) = "content_block_delta"
          [] p = "ollama" ->
               l.prefix = "" /\ l.json /\ l.error = "" /\ l.content = "" /\ ~l.done
          [] OTHER -> FALSE

\* ls is K content deltas followed by the provider's terminal marker: for
\* anthropic the deltas follow `event: content_block_delta` lines and the marker
\* is `event: message_stop` with its data line.
Scripted(p, ls) ==
    LET n == Len(ls)
    IN  CASE p = "openai" ->
               /\ n >= 1 /\ ls[n] = DoneLine
               /\ \A i \in 1..(n - 1) : IsContentDelta(p, ls, i)
          [] p = "anthropic" ->
               /\ n >= 2
               /\ ls[n - 1] = EventLine("message_stop")
               /\ ls[n].prefix = "data: "
               /\ \A i \in 1..(n - 2) :
                    \/ ls[i] = EventLine("content_block_delta")
                    \/ IsContentDelta(p, ls, i)
          [] p = "ollama" ->
               /\ n >= 1 /\ ls[n] = OllamaLine("", TRUE)
               /\ \A i \in 1..(n - 1) : IsContentDelta(p, ls, i)
          [] OTHER -> FALSE

\* Line i does not parse as JSON (SSE: the payload of a `data: ` line).
IsBadLine(p, ls, i) ==
    LET l == ls[i]
    IN  CASE p = "openai" -> l.prefix = "data: " /\ ~l.json /\ l.text # "[DONE]"
          [] p = "anthropic" -> l.prefix = "data: " /\ ~l.json
          [] p = "ollama" -> ~IsEmpty(l) /\ ~(l.prefix = "" /\ l.json)
          [] OTHER -> FALSE

\* The same, for anthropic only under the content_block_delta event type.
IsDecodedBadLine(p, ls, i) ==
    /\ IsBadLine(p, ls, i)
    /\ p = "anthropic" => EventAt(ls, i) = "content_block_delta"

Success(st) == st >= 200 /\ st <= 299

----------------------------------------------------------------------------
(* C1: every stream delivers exactly one terminal Chunk (Done or Error)    *)
(* before its channel is closed, whatever the body, a body that ends       *)
(* without a terminal marker included.                                     *)
C1_ExactlyOneTerminal ==
    chClosed => NumTerminal(sent) = 1

(* C2: when the body is exhausted without a terminal marker having been    *)
(* seen, the stream delivers an error Chunk; the channel is not closed     *)
(* silently.                                                               *)
C2_ExhaustedBodyIsAnError ==
    (chClosed /\ scanEnd = "eof") => \E i \in DOMAIN sent : sent[i].Error # "nil"

(* C3: once the caller has stopped receiving, the background task is never *)
(* stuck: it has exited (body closed, channel closed) or it can still take *)
(* a step towards its exit; it is not blocked for good on a channel send.  *)
C3_StoppedConsumerNeverBlocksTask ==
    consumer = "stopped" => (pc = "done" /\ bodyCloses = 1) \/ ENABLED Goroutine

(* C4: after a Chunk with Done=true or a non-nil Error has been sent, no   *)
(* further Chunk is sent and no further line is read: the goroutine is on  *)
(* its way out, the terminal Chunk is the last one and the only one.       *)
C4_NothingAfterTerminal ==
    /\ [](TerminalSent =>
            /\ Exiting
            /\ sendq = <<>>
            /\ IsTerminal(sent[Len(sent)])
            /\ NumTerminal(sent) = 1)
    /\ [][TerminalSent => (sent' = sent /\ lines' = lines)]_vars

\* The stream ended on a terminal Chunk while the server could still send lines.
C4_Witness ==
    /\ chClosed
    /\ TerminalSent
    /\ Len(sent) >= 2
    /\ Len(lines) < LineBound(provider)

(* C5: a body of K content deltas with non-empty text followed by the      *)
(* provider's terminal marker yields exactly the K content Chunks, in the  *)
(* order of the lines, then one Chunk with Done=true, and nothing else.    *)
C5_ScriptedStream ==
    Scripted(provider, lines) =>
        /\ sent \o sendq = ContentsOf(provider, lines, Len(lines)) \o <<DoneChunk>>
        /\ Len(ContentsOf(provider, lines, Len(lines)))
             = Cardinality({i \in DOMAIN lines : IsContentDelta(provider, lines, i)})
        /\ next = "exit"
        /\ chClosed => sendq = <<>>

\* An anthropic stream of two deltas and message_stop has been delivered.
C5_Witness ==
    /\ provider = "anthropic"
    /\ chClosed
    /\ Scripted(provider, lines)
    /\ sent = <<ContentChunk("a"), ContentChunk("b"), DoneChunk>>

(* C6 as claimed: a line that is not valid JSON (SSE: a `data: ` line with *)
(* an invalid payload, under any current event type) ends the stream: the  *)
(* Chunks of the lines before it, then one error Chunk, and no line is     *)
(* read past it.                                                           *)
C6_BadLineAnyEvent ==
    \A i \in DOMAIN lines :
        IsBadLine(provider, lines, i) =>
            /\ i = Len(lines)
            /\ next = "exit"
            /\ sent \o sendq
                 = ContentsOf(provider, lines, i - 1) \o <<ErrorChunk(ParseError)>>

(* C6 as amended: the same, where for anthropic the bad data line is read  *)
(* under the content_block_delta event type.                               *)
C6_BadLineDecoded ==
    \A i \in DOMAIN lines :
        IsDecodedBadLine(provider, lines, i) =>
            /\ i = Len(lines)
            /\ next = "exit"
            /\ sent \o sendq
                 = ContentsOf(provider, lines, i - 1) \o <<ErrorChunk(ParseError)>>
            /\ NumErrors(sent \o sendq) = 1
            /\ chClosed => sendq = <<>>

\* Two content Chunks, then the error Chunk of a bad line, then the close.
C6_Witness ==
    /\ chClosed
    /\ lines # <<>>
    /\ IsDecodedBadLine(provider, lines, Len(lines))
    /\ sent = <<ContentChunk("a"), ContentChunk("b"), ErrorChunk(ParseError)>>

(* C7: the response body of a started stream is closed exactly once, and   *)
(* only after the decoder has stopped reading: never while the goroutine   *)
(* scans or sends, and always by the time it has ended, on every path.     *)
C7_BodyClosedOnce ==
    /\ bodyCloses <= 1
    /\ pc \in {"scan", "send", "closeBody"} => bodyCloses = 0
    /\ pc \in {"closeCh", "done"} => bodyCloses = 1

\* The goroutine has ended on an embedded error field.
C7_Witness ==
    /\ pc = "done"
    /\ bodyCloses = 1
    /\ sent # <<>>
    /\ sent[Len(sent)] = ErrorChunk(OllamaError)

(* C8: every Chunk that is not terminal carries non-empty Content; a delta *)
(* whose text is empty produces no Chunk.                                  *)
C8_NoEmptyContent ==
    /\ \A i \in DOMAIN (sent \o sendq) :
          ~IsTerminal((sent \o sendq)[i]) => (sent \o sendq)[i].Content # ""
    /\ Len(SelectSeq(sent \o sendq, IsContent))
         = Cardinality({i \in DOMAIN lines : DeltaText(provider, lines, i) # ""})

\* A stream with an empty delta between two non-empty ones has been delivered.
C8_Witness ==
    /\ chClosed
    /\ Len(lines) >= 3
    /\ IsEmptyDelta(provider, lines, 2)
    /\ Len(sent) >= 2
    /\ ~IsTerminal(sent[1])
    /\ ~IsTerminal(sent[2])

(* C9: when reading the body fails before a terminal marker, the Chunks of *)
(* the lines read so far are delivered, then exactly one Chunk with a      *)
(* non-nil Error, and the goroutine goes on to close the channel.          *)
C9_ReadErrorReported ==
    scanEnd = "err" =>
        /\ sent \o sendq
             = ContentsOf(provider, lines, Len(lines)) \o <<ErrorChunk(ReadError)>>
        /\ next = "exit"
        /\ pc \in {"send", "closeBody", "closeCh", "done"}
        /\ chClosed => sendq = <<>>

\* Two content Chunks, a read error, the error Chunk, the close.
C9_Witness ==
    /\ chClosed
    /\ scanEnd = "err"
    /\ Len(sent) = 3

(* C10: when the initial response has a non-success status, CompleteStream *)
(* returns a non-nil error and a nil channel, starts no goroutine, sends   *)
(* no Chunk and has closed the response body exactly once.                 *)
C10_ErrorStatusReturn ==
    (wire.Stream /\ outcome.kind = "response" /\ ~Success(outcome.status)) =>
        /\ pc = "returned"
        /\ ret.err # "nil"
        /\ ~ret.ch
        /\ started = 0
        /\ sent = <<>> /\ sendq = <<>>
        /\ ~chClosed
        /\ bodyCloses = 1

\* CompleteStream has returned on a 429.
C10_Witness ==
    /\ wire.Stream
    /\ pc = "returned"
    /\ outcome.kind = "response"
    /\ outcome.status = 429

(* C11: in the anthropic decoder a message_stop event ends the stream with *)
(* one Chunk{Done=true} and no error Chunk, whatever follows it: a data    *)
(* line with valid JSON, a data line with invalid JSON, or the end of the  *)
(* body with no data line at all.                                          *)
C11_MessageStopEndsStream ==
    (/\ provider = "anthropic"
     /\ chClosed
     /\ \E i \in DOMAIN lines :
          /\ lines[i] = EventLine("message_stop")
          /\ \/ i = Len(lines) /\ scanEnd = "eof"
             \/ i < Len(lines) /\ lines[i + 1].prefix = "data: ")
    => /\ sent # <<>>
       /\ sent[Len(sent)] = DoneChunk
       /\ NumTerminal(sent) = 1
       /\ NumErrors(sent) = 0

\* C12: in the Anthropic decoder the current event type is the text of the last
\* `event: ` line read, whatever data, empty and unprefixed lines came after it;
\* the content Chunks are exactly those of the data lines read under
\* content_block_delta whose delta is a text_delta with non-empty text; and a data
\* line under an event type other than content_block_delta and message_stop
\* yields no Chunk and leaves the loop scanning.
C12_EventTypeGovernsData ==
    provider = "anthropic" /\ ret.ch =>
      /\ currentEvent = EventAt(lines, Len(lines) + 1)
      /\ SelectSeq(sent \o sendq, IsContent) = ContentsOf(provider, lines, Len(lines))
      /\ \A i \in DOMAIN lines :
           (/\ lines[i].prefix = "data: "
            /\ EventAt(lines, i) \notin {"content_block_delta", "message_stop"})
           => /\ i < Len(lines) \/ scanEnd # "" \/ (pc = "scan" /\ sendq = <<>>)
              /\ i = Len(lines) /\ scanEnd = "" => next = "scan"
      /\ (\E k \in DOMAIN (sent \o sendq) : IsTerminal((sent \o sendq)[k]))
           => \/ scanEnd = "err"
              \/ /\ lines # <<>>
                 /\ lines[Len(lines)].prefix = "data: "
                 /\ EventAt(lines, Len(lines)) \in {"content_block_delta", "message_stop"}

\* A text delta under content_block_delta is sent although a comment line came
\* in between, and the same payload under content_block_start is skipped.
C12_Witness ==
    /\ provider = "anthropic"
    /\ lines = <<EventLine("content_block_delta"), CommentLine, AnthropicData("a"),
                 EventLine("content_block_start"), AnthropicData("a")>>
    /\ sent = <<ContentChunk("a")>>
    /\ pc = "scan"

(* C13: in the ollama decoder a line with non-empty message content and    *)
(* done=true yields the content Chunk and, right after it, the Done Chunk; *)
(* the content of the final line is not dropped.                           *)
C13_FinalLineContentKept ==
    (/\ provider = "ollama"
     /\ lines # <<>>
     /\ LET l == lines[Len(lines)]
        IN  l.prefix = "" /\ l.json /\ l.error = "" /\ l.content # "" /\ l.done)
    => /\ sent \o sendq
            = ContentsOf(provider, lines, Len(lines) - 1)
              \o <<ContentChunk(lines[Len(lines)].content), DoneChunk>>
       /\ next = "exit"
       /\ scanEnd = ""
       /\ chClosed => sendq = <<>>

\* "a" from one line, then "b" and Done from the final line.
C13_Witness ==
    /\ provider = "ollama"
    /\ chClosed
    /\ lines = <<OllamaLine("a", FALSE), OllamaLine("b", TRUE)>>
    /\ sent = <<ContentChunk("a"), ContentChunk("b"), DoneChunk>>

(* C14: in the ollama decoder a line with a non-empty error field ends the *)
(* stream with exactly one error Chunk and nothing else from that line,    *)
(* also when the line carries message content or done=true.                *)
C14_ErrorFieldEndsStream ==
    (/\ provider = "ollama"
     /\ lines # <<>>
     /\ LET l == lines[Len(lines)]
        IN  l.prefix = "" /\ l.json /\ l.error # "")
    => /\ sent \o sendq
            = ContentsOf(provider, lines, Len(lines) - 1)
              \o <<ErrorChunk(OllamaError)>>
       /\ next = "exit"
       /\ scanEnd = ""
       /\ chClosed => sendq = <<>>

\* An error line that also carries content and done=true, after one delta.
C14_Witness ==
    /\ provider = "ollama"
    /\ chClosed
    /\ lines = <<OllamaLine("b", FALSE), OllamaErrorLine>>
    /\ OllamaErrorLine.content # "" /\ OllamaErrorLine.done
    /\ sent = <<ContentChunk("b"), ErrorChunk(OllamaError)>>

(* C15: in the openai decoder empty lines and lines without the `data: `   *)
(* prefix produce no Chunk and do not end the stream, whatever their       *)
(* content; a Done Chunk is produced exactly when the line read is         *)
(* `data: [DONE]`.                                                         *)
C15_SentinelOnly ==
    provider = "openai" =>
        /\ (/\ lines # <<>>
            /\ lines[Len(lines)].prefix # "data: "
            /\ scanEnd = "")
           => (pc = "scan" /\ sendq = <<>> /\ next = "scan")
        /\ Len(SelectSeq(sent \o sendq, IsContent))
             = Cardinality({i \in DOMAIN lines :
                              lines[i].prefix = "data: " /\ DeltaText(provider, lines, i) # ""})
        /\ (\E i \in DOMAIN (sent \o sendq) : (sent \o sendq)[i].Done)
           <=> (lines # <<>> /\ lines[Len(lines)] = DoneLine)

\* Unprefixed lines with a sentinel and a JSON payload were passed over before
\* the stream ended on `data: [DONE]`.
C15_Witness ==
    /\ provider = "openai"
    /\ chClosed
    /\ lines = <<BareDoneLine, BareJsonLine, EmptyLine, DoneLine>>
    /\ sent = <<DoneChunk>>

\* The call in the state was Complete / CompleteStream, and it has returned.
CompleteReturned == pc = "returned" /\ provider # "none" /\ ~wire.Stream
ReturnedError == IF wire.Stream THEN ret.err ELSE result.err

\* C16: whenever a successful (2xx) response to Complete carries zero choices
\* (OpenAI) or zero content blocks (Anthropic), Complete returns no Response and
\* the empty-response error, which is none of the errors handleError returns for
\* a non-success status, and exactly one HTTP request was made.
C16_EmptyResponseIsDistinctError ==
    (/\ CompleteReturned
     /\ outcome.kind = "response"
     /\ Success(outcome.status)
     /\ outcome.body.json
     /\ \/ provider = "openai" /\ Len(outcome.body.choices) = 0
        \/ provider = "anthropic" /\ Len(outcome.body.content) = 0)
    => /\ result.resp = <<>>
       /\ result.err = (IF provider = "openai" THEN "no choices in response"
                        ELSE "no content in response")
       /\ result.err \notin {HandleError(p, st, d) :
                               p \in Providers, st \in Statuses, d \in BOOLEAN}
       /\ httpCalls = 1

\* C17: for every adapter, Complete and CompleteStream answer a non-success
\* status with an error classified by the status alone: 401 gives the invalid
\* API key error, 429 the rate limited error, whatever the body; every other
\* status gives the API error with the status code and the provider's message
\* when the body decodes, else the raw body.
C17_ClassifiedByStatusAlone ==
    (/\ pc = "returned"
     /\ outcome.kind = "response"
     /\ ~Success(outcome.status))
    => LET st == outcome.status
       IN  /\ st = 401 => ReturnedError = "invalid API key"
           /\ st = 429 => ReturnedError = "rate limited"
           /\ st \notin {401, 429} =>
                /\ ReturnedError = "API error"
                /\ HandleErrorArgs(provider, st, outcome.decodable)
                     = [status |-> st,
                        text |-> IF outcome.decodable THEN "message" ELSE "body"]

\* C18: the wire request of the OpenAI and Ollama adapters has the messages
\* [user] when the system prompt is empty and [system, user] when it is not; the
\* Anthropic wire request always has the one user message and carries the system
\* prompt in its System field, for Complete and CompleteStream alike.
C18_SystemPromptPlacement ==
    /\ provider \in {"openai", "ollama"} =>
         wire.Messages = IF req.System = ""
                         THEN <<[Role |-> "user", Content |-> req.Prompt]>>
                         ELSE <<[Role |-> "system", Content |-> req.System],
                                [Role |-> "user", Content |-> req.Prompt]>>
    /\ provider = "anthropic" =>
         /\ wire.Messages = <<[Role |-> "user", Content |-> req.Prompt]>>
         /\ wire.System = req.System

\* A streaming Ollama request with a system prompt has been built.
C18_Witness ==
    /\ provider = "ollama"
    /\ wire.Stream
    /\ req.System = "sys"
    /\ Len(wire.Messages) = 2
    /\ wire.Messages[1].Role = "system"

\* The models of Models whose identifier starts with o1 or o3 or contains gpt-4o
\* or gpt-5, listed by hand.
NewerModels ==
    {<<"o", "1">>,
     <<"o", "1", "-", "m", "i", "n", "i">>,
     <<"o", "3">>,
     <<"o", "3", "-", "m", "i", "n", "i">>,
     <<"g", "p", "t", "-", "4", "o">>,
     <<"g", "p", "t", "-", "4", "o", "-", "m", "i", "n", "i">>,
     <<"c", "h", "a", "t", "g", "p", "t", "-", "4", "o", "-", "l", "a", "t", "e", "s", "t">>,
     <<"f", "t", ":", "g", "p", "t", "-", "4", "o", ":", "o", "r", "g">>,
     <<"g", "p", "t", "-", "5">>,
     <<"g", "p", "t", "-", "5", "-", "m", "i", "n", "i">>}

\* C19: in the OpenAI wire request at most one of MaxTokens and
\* MaxCompletionTokens is non-zero: both are zero when the request has no limit;
\* with a positive limit only MaxCompletionTokens carries it for a model that
\* starts with o1 or o3 or contains gpt-4o or gpt-5, and only MaxTokens for any
\* other model.
C19_OneTokenLimitField ==
    provider = "openai" =>
      /\ wire.MaxTokens = 0 \/ wire.MaxCompletionTokens = 0
      /\ req.MaxTokens = 0 => wire.MaxTokens = 0 /\ wire.MaxCompletionTokens = 0
      /\ req.MaxTokens > 0 /\ req.Model \in NewerModels =>
           wire.MaxCompletionTokens = req.MaxTokens /\ wire.MaxTokens = 0
      /\ req.MaxTokens > 0 /\ req.Model \notin NewerModels =>
           wire.MaxTokens = req.MaxTokens /\ wire.MaxCompletionTokens = 0

\* A limit for gpt-5-mini went into MaxCompletionTokens.
C19_Witness ==
    /\ provider = "openai"
    /\ req.Model = <<"g", "p", "t", "-", "5", "-", "m", "i", "n", "i">>
    /\ req.MaxTokens = 1024
    /\ wire.MaxCompletionTokens = 1024
    /\ wire.MaxTokens = 0

\* C20: the Anthropic wire request's MaxTokens is 1024 when the request has no
\* limit and the request's MaxTokens otherwise, and so is never zero.
C20_AnthropicDefaultLimit ==
    provider = "anthropic" =>
      /\ wire.MaxTokens = (IF req.MaxTokens = 0 THEN 1024 ELSE req.MaxTokens)
      /\ wire.MaxTokens # 0

\* A request without a limit went out with 1024.
C20_Witness ==
    /\ provider = "anthropic"
    /\ req.MaxTokens = 0
    /\ wire.MaxTokens = 1024

\* C21: a request the Ollama adapter sends has an Authorization header exactly
\* when the API key is not empty, and its value is then `Bearer ` followed by the
\* key.
C21_OllamaAuthorizationHeader ==
    provider = "ollama" /\ httpReq.method # "" =>
      /\ "Authorization" \in DOMAIN httpReq.headers <=> req.APIKey # ""
      /\ "Authorization" \in DOMAIN httpReq.headers =>
           httpReq.headers["Authorization"] = <<"Bearer ", req.APIKey>>

\* An Ollama request without a key went out with the Content-Type header only.
C21_Witness ==
    /\ provider = "ollama"
    /\ req.APIKey = ""
    /\ httpReq.method = "POST"
    /\ DOMAIN httpReq.headers = {"Content-Type"}

\* The fixed path and the default endpoint of each provider and request kind.
FixedPath ==
    IF httpReq.method = "GET" THEN "/v1/models"
    ELSE CASE provider = "openai" -> "/v1/chat/completions"
           [] provider = "anthropic" -> "/v1/messages"
           [] provider = "ollama" -> "/api/chat"
DefaultEndpoint ==
    IF httpReq.method = "GET" THEN <<"https://api.openai.com", "/v1/models">>
    ELSE CASE provider = "openai" -> <<"https://api.openai.com", "/v1/chat/completions">>
           [] provider = "anthropic" -> <<"https://api.anthropic.com", "/v1/messages">>
           [] provider = "ollama" -> <<"http://localhost:11434", "/api/chat">>

\* C22: for every provider, for Complete, CompleteStream and openai.ListModels,
\* an override U that does not end in `/` and the override U followed by one `/`
\* both give the endpoint U followed by the fixed path, and without an override
\* the endpoint is the provider's default.
C22_TrailingSlashSameEndpoint ==
    httpReq.method # "" =>
      /\ req.BaseURL = <<>> => httpReq.url = DefaultEndpoint
      /\ \A U \in BaseURLs :
           (/\ U # <<>>
            /\ U[Len(U)] # "/"
            /\ req.BaseURL \in {U, U \o <<"/">>})
           => httpReq.url = U \o <<FixedPath>>

\* openai.ListModels with the override `http://h/` asked `http://h/v1/models`.
C22_Witness ==
    /\ httpReq.method = "GET"
    /\ req.BaseURL = <<"http://h", "/">>
    /\ httpReq.url = <<"http://h", "/v1/models">>

\* C23: a call of Complete or CompleteStream makes at most one HTTP request:
\* once the call has started, the number of requests made is one (none when the
\* request could not be created) and stays so after a transport error, an error
\* status, a decode error and an error Chunk.
C23_AtMostOneRequest ==
    /\ httpCalls <= 1
    /\ pc # "idle" => httpCalls = (IF outcome.kind = "newRequestError" THEN 0 ELSE 1)

\* A stream that ended with a read error Chunk, after one request.
C23_Witness ==
    /\ pc = "done"
    /\ scanEnd = "err"
    /\ sent # <<>>
    /\ sent[Len(sent)] = ErrorChunk(ReadError)
    /\ httpCalls = 1

\* What the decoder of adapter p makes of the lines ls when it runs alone.
RECURSIVE RunDecoder(_, _)
RunDecoder(p, ls) ==
    IF ls = <<>> THEN [event |-> "", out |-> <<>>, stop |-> FALSE]
    ELSE LET r == RunDecoder(p, SubSeq(ls, 1, Len(ls) - 1))
             d == Decode(p, r.event, ls[Len(ls)])
         IN  [event |-> d.event, out |-> r.out \o d.out, stop |-> d.stop]

\* C24: with several CompleteStream calls running on one adapter, the Chunks of
\* each call, its current event type and whether it has ended are those of a
\* decoder that reads the lines of that call's body alone, in every interleaving.
C24_CallsAreIsolated ==
    \A c \in Calls :
       calls[c].pc \notin {"idle", "returned"} =>
         LET r == RunDecoder(provider, calls[c].lines)
         IN  /\ calls[c].sent \o calls[c].sendq
                  = r.out \o (IF calls[c].scanEnd = "err"
                              THEN <<ErrorChunk(ReadError)>> ELSE <<>>)
             /\ calls[c].currentEvent = r.event
             /\ calls[c].next = "exit" <=> (r.stop \/ calls[c].scanEnd # "")
             /\ calls[c].chClosed => calls[c].sendq = <<>>

\* Two Anthropic calls have run to their end: one delivered a content Chunk, the
\* other the Done Chunk.
C24_Witness ==
    /\ calls[1].lines = <<EventLine("content_block_delta"), AnthropicData("a")>>
    /\ calls[1].sent = <<ContentChunk("a")>>
    /\ calls[1].chClosed
    /\ calls[2].lines = <<EventLine("message_stop"), AnthropicData("b")>>
    /\ calls[2].sent = <<DoneChunk>>
    /\ calls[2].chClosed

\* The first content payload of a response body, as adapter p reads it.
FirstPayload(p, b) ==
    CASE p = "openai" -> b.choices[1]
      [] p = "anthropic" ->
           IF \E i \in DOMAIN b.content : b.content[i].type = "text"
           THEN b.content[CHOOSE i \in DOMAIN b.content :
                            /\ b.content[i].type = "text"
                            /\ \A j \in 1..(i - 1) : b.content[j].type # "text"].text
           ELSE ""
      [] p = "ollama" -> b.message

\* The body carries what the adapter needs for a Response.
HasPayload(p, b) ==
    /\ b.json
    /\ p = "openai" => b.choices # <<>>
    /\ p = "anthropic" => b.content # <<>>
    /\ p = "ollama" => b.error = ""

\* C25: on a successful (2xx) response that carries a content payload, Complete
\* returns no error and a Response with the first content payload as Content,
\* the request's Model as Model and the body's token counts as Usage.
C25_ResponseFromFirstPayload ==
    (/\ CompleteReturned
     /\ outcome.kind = "response"
     /\ Success(outcome.status)
     /\ HasPayload(provider, outcome.body))
    => /\ result.err = "nil"
       /\ result.resp = <<[Content |-> FirstPayload(provider, outcome.body),
                           Model |-> req.Model,
                           Usage |-> [PromptTokens |-> outcome.body.usage.in,
                                      CompletionTokens |-> outcome.body.usage.out]]>>

\* C26: once CompleteStream has returned a channel, a caller that receives every
\* Chunk sees the channel closed in the end, with every Chunk delivered before:
\* after a terminal Chunk, after a read error and after plain end of body.
C26_ChannelEventuallyClosed ==
    /\ ret.ch ~> (chClosed /\ forward.closed /\ forward.count = Len(sent))
    /\ [](forward.closed => chClosed /\ forward.count = Len(sent))

\* The caller's channel was closed after a body that ended without a terminal
\* marker and after all its Chunks.
C26_Witness ==
    /\ forward.closed
    /\ scanEnd = "eof"
    /\ sent # <<>>
    /\ forward.count = Len(sent)
    /\ NumTerminal(sent) = 0

\* The Chunks the loop body makes of the line read last.
LastLineChunks ==
    IF lines = <<>> THEN <<>>
    ELSE Decode(provider, RunDecoder(provider, SubSeq(lines, 1, Len(lines) - 1)).event,
                lines[Len(lines)]).out

\* C35: an adapter's stream decoder is never more than one Chunk ahead of its
\* consumer: it reads the next body line only when the consumer has received
\* every Chunk made of the lines read so far, so the Chunks not yet received are
\* those of the current line, one of them in the send.
C35_DecoderOneChunkAhead ==
    /\ pc = "scan" => (sendq = <<>> /\ sent = RunDecoder(provider, lines).out)
    /\ (pc = "send" /\ scanEnd = "")
          => /\ sent \o sendq = RunDecoder(provider, lines).out
             /\ Len(sendq) <= Len(LastLineChunks)

\* The caller stopped receiving after one Chunk: the decoder has read one more
\* line, holds its Chunk in the send and reads no further.
C35_Witness ==
    /\ provider = "ollama"
    /\ consumer = "stopped"
    /\ pc = "send"
    /\ Len(lines) = 2
    /\ Len(sent) = 1
    /\ Len(sendq) = 1

\* C36: Complete and CompleteStream treat a response as successful if and only
\* if its status is 2xx: every 2xx status is decoded as a result, and every
\* non-2xx status yields an HTTP status error.
C36_SuccessIffTwoXX ==
    (pc # "idle" /\ provider # "none" /\ outcome.kind = "response")
    => IF Success(outcome.status)
       THEN IF wire.Stream
            THEN ret = [ch |-> TRUE, err |-> "nil"]
            ELSE result = Result(provider, req, outcome.body)
       ELSE /\ ReturnedError = HandleError(provider, outcome.status, outcome.decodable)
            /\ wire.Stream => ~ret.ch
            /\ ~wire.Stream => result.resp = <<>>

----------------------------------------------------------------------------
(* The OpenAI decoder on payloads with any number of choices. *)

\* data: {"choices":[{"delta":{"content":cs[1]}},{"delta":{"content":cs[2]}},...]}
OpenAIChoices(cs) == JsonLine("data: ", cs, <<>>, "", FALSE, "")

ChoiceWire ==
    {EmptyLine, DoneLine, BadDataLine,
     OpenAIChoices(<<>>), OpenAIChoices(<<"">>), OpenAIChoices(<<"a">>),
     OpenAIChoices(<<"a", "b">>), OpenAIChoices(<<"", "b">>), OpenAIChoices(<<"", "">>)}

ChoiceNext ==
    \/ CompleteStream("openai", DefaultRequest,
                      [kind |-> "response", status |-> StatusOK, decodable |-> FALSE])
    \/ \E l \in ChoiceWire : ScanLine(l)
    \/ ScanEOF
    \/ ScanError
    \/ Send
    \/ CloseBody
    \/ CloseChan

ChoiceSpec == Init /\ [][ChoiceNext]_vars

\* The first non-empty delta content among the choices, "" if there is none.
RECURSIVE FirstContent(_)
FirstContent(cs) ==
    IF cs = <<>> THEN ""
    ELSE IF Head(cs) # "" THEN Head(cs)
    ELSE FirstContent(Tail(cs))

\* C37: in the OpenAI decoder, each well-formed data payload in which at least
\* one choice has a non-empty delta content produces exactly one content Chunk
\* carrying that content, also when the first choice has an empty delta and a
\* later choice a non-empty one.
C37_AnyChoiceContentEmitted ==
    [][\A l \in ChoiceWire :
          (/\ ScanLine(l)
           /\ provider = "openai"
           /\ l.prefix = "data: " /\ l.json
           /\ FirstContent(l.choices) # "")
             => sendq' = <<ContentChunk(FirstContent(l.choices))>>]_vars

\* C38: the channel returned by Client.CompleteStream delivers exactly the
\* sequence of Chunks the provider's channel delivers (same Content, Done and
\* Error, same order, none dropped or duplicated) and is closed only after the
\* provider's channel has been closed and every provider Chunk has been forwarded.
C38_ForwardedChunksSame ==
    /\ Len(forward.out) <= Len(sent)
    /\ forward.out = SubSeq(sent, 1, Len(forward.out))
    /\ Len(sent) - Len(forward.out) <= 1
    /\ forward.closed => (chClosed /\ forward.out = sent)

\* A content Chunk and then a read-error Chunk went through both channels, and
\* the client's channel is closed.
C38_Witness ==
    /\ forward.closed
    /\ Len(forward.out) = 2
    /\ forward.out[1].Content # ""
    /\ forward.out[2].Error = ReadError
    /\ forward.out = sent

\* C39: starting from an empty configuration, after any sequence of
\* AddProviderAccount and RemoveProviderAccount calls, the set of keys in the
\* client's secrets equals the set of provider:account pairs listed in the
\* configuration: every listed account has a stored key and no key remains for
\* a removed account.
C39_SecretsMatchAccounts ==
    DOMAIN secrets =
       UNION {{secretKey(<<prov>>, <<a>>) : a \in Elems(config.Providers[prov].Accounts)} :
                prov \in DOMAIN config.Providers}

\* openai lists y before x, as after adding x and y, removing x and adding it
\* again, and each of the two has its key.
C39_Witness ==
    /\ opErr = "nil"
    /\ "openai" \in DOMAIN config.Providers
    /\ config.Providers["openai"].Accounts = <<"y", "x">>
    /\ DOMAIN secrets = {secretKey(<<"openai">>, <<"x">>), secretKey(<<"openai">>, <<"y">>)}

\* C40: when persisting fails (Config.Save or SaveSecrets returns an error),
\* AddProfile, RemoveProfile, SetDefaultProfile, AddProviderAccount and
\* RemoveProviderAccount return that error and leave the client's in-memory
\* profiles, default profile, account lists and secrets as they were before the
\* call.
C40_FailedSaveChangesNothing ==
    [][(/\ \/ \E n \in ProfileNames, prof \in Profiles, ok \in BOOLEAN : AddProfile(n, prof, ok)
           \/ \E n \in ProfileNames, ok \in BOOLEAN : RemoveProfile(n, ok)
           \/ \E n \in ProfileNames, ok \in BOOLEAN : SetDefaultProfile(n, ok)
           \/ \E prov \in AccountProviders, a \in AccountNames, k \in APIKeys,
                 ok1 \in BOOLEAN, ok2 \in BOOLEAN : AddProviderAccount(prov, a, k, ok1, ok2)
           \/ \E prov \in AccountProviders, a \in AccountNames,
                 ok1 \in BOOLEAN, ok2 \in BOOLEAN : RemoveProviderAccount(prov, a, ok1, ok2)
        /\ opErr' \in {Save(FALSE), SaveSecrets(FALSE)})
          => (config' = config /\ secrets' = secrets)]_vars

====
